---------------------------- MODULE Spec2Model ----------------------------
(***************************************************************************)
(* A model of the audioMotion-analyzer class of                            *)
(* src/src/components/AudiomotionAnalyzer.js: its configuration setters,   *)
(* the layout it derives from them (_calcAux, _calcBars, _calcLeds,        *)
(* _makeGrad), the frame loop (toggleAnalyzer, requestAnimationFrame) and  *)
(* the per-frame update of the bars' peaks and of the energy (_draw).      *)
(*                                                                         *)
(* The instance is the record  am  (one field per field of `this`, named   *)
(* as in the source without the leading underscore); the browser's list    *)
(* of requested animation frames is  win ;  obs  records the last call     *)
(* made on the instance and what it answered.                              *)
(*                                                                         *)
(* JavaScript numbers are modelled by exact fractions [n, d]; d = 0 gives  *)
(* the three special values NaN (0/0), Infinity (1/0), -Infinity (-1/0).   *)
(***************************************************************************)
EXTENDS Integers, Sequences, FiniteSets, TLC

VARIABLES am, win, obs

vars == <<am, win, obs>>

---------------------------------------------------------------------------
(* Numbers *)

Abs(x) == IF x < 0 THEN -x ELSE x

Sign(x) == IF x < 0 THEN -1 ELSE IF x > 0 THEN 1 ELSE 0

RECURSIVE GCD(_, _)
GCD(a, b) == IF b = 0 THEN a ELSE GCD(b, a % b)

\* n/d with the common factor g taken out and the sign s of d moved to n
Lowest(n, d, s, g) == [n |-> s * (n \div g), d |-> s * (d \div g)]

\* the number n/d in lowest terms, d > 0; n/0 is NaN or +-Infinity
Q(n, d) ==
    IF d = 0 THEN [n |-> Sign(n), d |-> 0]
    ELSE Lowest(n, d, Sign(d), GCD(Abs(n), Abs(d)))

I(k) == [n |-> k, d |-> 1]

NaN == [n |-> 0, d |-> 0]

Infinity == [n |-> 1, d |-> 0]

IsNaN(x) == x.d = 0 /\ x.n = 0

IsFinite(x) == x.d # 0

QNeg(x) == [n |-> -x.n, d |-> x.d]

\* x + y for finite x and y, g the common factor of their denominators
AddOver(x, y, g) == Q(x.n * (y.d \div g) + y.n * (x.d \div g), x.d * (y.d \div g))

QAdd(x, y) ==
    IF x.d = 0 /\ y.d = 0
    THEN (IF x.n = y.n THEN x ELSE NaN)
    ELSE IF x.d = 0 THEN x
    ELSE IF y.d = 0 THEN y
    ELSE AddOver(x, y, GCD(x.d, y.d))

QSub(x, y) == QAdd(x, QNeg(y))

\* x * y for finite x and y, cross-cancelled by g1 and g2 before multiplying, so
\* that the products stay small
MulOver(x, y, g1, g2) ==
    Q((x.n \div g1) * (y.n \div g2), (x.d \div g2) * (y.d \div g1))

QMul(x, y) ==
    IF x.d = 0 \/ y.d = 0 THEN [n |-> Sign(x.n) * Sign(y.n), d |-> 0]
    ELSE MulOver(x, y, GCD(Abs(x.n), y.d), GCD(Abs(y.n), x.d))

\* 1/x; 1/0 is Infinity, 1/Infinity is 0
QInv(x) ==
    IF x.d = 0 THEN [n |-> 0, d |-> IF x.n = 0 THEN 0 ELSE 1]
    ELSE IF x.n = 0 THEN Infinity
    ELSE [n |-> Sign(x.n) * x.d, d |-> Abs(x.n)]

QDiv(x, y) ==
    IF y.d # 0 /\ y.n = 0
    THEN [n |-> IF x.d # 0 /\ x.n = 0 THEN 0 ELSE Sign(x.n), d |-> 0]
    ELSE QMul(x, QInv(y))

\* x < y, x <= y as JavaScript compares: false whenever one side is NaN
QLt(x, y) ==
    /\ ~IsNaN(x)
    /\ ~IsNaN(y)
    /\ IF x.d = 0 /\ y.d = 0 THEN x.n < y.n ELSE x.n * y.d < y.n * x.d

QLe(x, y) ==
    /\ ~IsNaN(x)
    /\ ~IsNaN(y)
    /\ IF x.d = 0 /\ y.d = 0 THEN x.n <= y.n ELSE x.n * y.d <= y.n * x.d

\* Math.min, Math.max
QMin(x, y) == IF IsNaN(x) \/ IsNaN(y) THEN NaN ELSE IF QLt(y, x) THEN y ELSE x

QMax(x, y) == IF IsNaN(x) \/ IsNaN(y) THEN NaN ELSE IF QLt(x, y) THEN y ELSE x

\* Math.floor of a finite number, as an integer
Floor(x) == x.n \div x.d

\* x | 0 : NaN and the infinities give 0, a finite number loses its fraction
\* (towards zero); the magnitudes of this model stay far below 2^31
Trunc(x) ==
    IF x.d = 0 THEN 0
    ELSE IF x.n >= 0 THEN x.n \div x.d ELSE -((-x.n) \div x.d)

\* Math.round : the nearest integer, halves upwards; not finite stays as is
Round(x) == IF x.d = 0 THEN x ELSE I((2 * x.n + x.d) \div (2 * x.d))

---------------------------------------------------------------------------
(* Loops.  A loop of the source is a recursive operator whose arguments are *)
(* the loop's variables.  Then( v, F ) is F( v ) with v computed first, so  *)
(* that each round of a loop hands on values and not the computations still *)
(* pending from all the rounds before it.                                  *)

Then(v, F(_)) == CHOOSE r \in {F(x) : x \in {v}} : TRUE

---------------------------------------------------------------------------
(* The environment of the instance *)

\* audioCtx.sampleRate
SampleRate == 44100

\* window.devicePixelRatio ( this._pixelRatio of _setCanvas; loRes is not modelled )
DevicePixelRatio == 1

\* the container's clientWidth and clientHeight, used when no width / height is set
ClientWidth == 8

ClientHeight == 10

\* the hold of a peak and of the energy peak, in frames
HoldFrames == 30

\* the value of an array element that was never written ( hold: [], accel: [] )
Undefined == -1

\* Math.log10, times 10^4, of the integers 1 .. 64
LogTable ==
    << 
       0, 3010, 4771, 6021, 6990, 7782, 8451, 9031, 9542, 10000,
       10414, 10792, 11139, 11461, 11761, 12041, 12304, 12553, 12788, 13010,
       13222, 13424, 13617, 13802, 13979, 14150, 14314, 14472, 14624, 14771,
       14914, 15051, 15185, 15315, 15441, 15563, 15682, 15798, 15911, 16021,
       16128, 16232, 16335, 16435, 16532, 16628, 16721, 16812, 16902, 16990,
       17076, 17160, 17243, 17324, 17404, 17482, 17559, 17634, 17709, 17782,
       17853, 17924, 17993, 18062
    >>

LogT(k) ==
    IF k \in 1..64 THEN LogTable[k]
    ELSE CASE k = 5000 -> 36990
           [] k = 16000 -> 42041
           [] k = 22000 -> 43424
           [] k = 27000 -> 44314
           [] k = 44100 -> 46444

\* Math.log10 of the whole numbers the model takes logarithms of
Log10(k) == IF k = 0 THEN QNeg(Infinity) ELSE IF k < 0 THEN NaN ELSE Q(LogT(k), 10000)

\* C0 * ROOT24 ** i in hundredths of a hertz, i = 0 .. 264 ( up to 33500 Hz )
NoteTable ==
    <<
       1635, 1683, 1732, 1783, 1835, 1889, 1945, 2002, 2060, 2121,
       2183, 2247, 2312, 2380, 2450, 2522, 2596, 2672, 2750, 2831,
       2914, 2999, 3087, 3177, 3270, 3366, 3465, 3566, 3671, 3778,
       3889, 4003, 4120, 4241, 4365, 4493, 4625, 4760, 4900, 5044,
       5191, 5343, 5500, 5661, 5827, 5998, 6174, 6354, 6541, 6732,
       6930, 7133, 7342, 7557, 7778, 8006, 8241, 8482, 8731, 8987,
       9250, 9521, 9800, 10087, 10383, 10687, 11000, 11322, 11654, 11996,
       12347, 12709, 13081, 13465, 13859, 14265, 14683, 15113, 15556, 16012,
       16481, 16964, 17461, 17973, 18500, 19042, 19600, 20174, 20765, 21374,
       22000, 22645, 23308, 23991, 24694, 25418, 26163, 26929, 27718, 28530,
       29366, 30227, 31113, 32024, 32963, 33929, 34923, 35946, 36999, 38084,
       39200, 40348, 41530, 42747, 44000, 45289, 46616, 47982, 49388, 50836,
       52325, 53858, 55437, 57061, 58733, 60454, 62225, 64049, 65926, 67857,
       69846, 71892, 73999, 76167, 78399, 80696, 83061, 85495, 88000, 90579,
       93233, 95965, 98777, 101671, 104650, 107717, 110873, 114122, 117466, 120908,
       124451, 128097, 131851, 135715, 139691, 143785, 147998, 152334, 156798, 161393,
       166122, 170990, 176000, 181157, 186466, 191929, 197553, 203342, 209300, 215433,
       221746, 228244, 234932, 241816, 248902, 256195, 263702, 271429, 279383, 287569,
       295996, 304669, 313596, 322785, 332244, 341979, 352000, 362314, 372931, 383859,
       395107, 406684, 418601, 430867, 443492, 456488, 469864, 483632, 497803, 512390,
       527404, 542858, 558765, 575138, 591991, 609338, 627193, 645571, 664488, 683958,
       704000, 724629, 745862, 767717, 790213, 813368, 837202, 861734, 886984, 912975,
       939727, 967263, 995606, 1024780, 1054808, 1085716, 1117530, 1150276, 1183982, 1218675,
       1254385, 1291142, 1328975, 1367917, 1408000, 1449258, 1491724, 1535435, 1580427, 1626737,
       1674404, 1723467, 1773969, 1825950, 1879455, 1934527, 1991213, 2049560, 2109616, 2171433,
       2235061, 2300553, 2367964, 2437351, 2508771, 2582283, 2657950, 2735834, 2816000, 2898515,
       2983448, 3070870, 3160853, 3253473, 3348807
    >>

NoteFreq(i) == Q(NoteTable[i + 1], 100)

NoteCount == Len(NoteTable)

---------------------------------------------------------------------------
(* The layout derived from the configuration *)

Half == [n |-> 1, d |-> 2]

\* this._analyzer[0].frequencyBinCount
BinCount(t) == t.fftSize \div 2

\* _calcAux, the radius and the flags ( barSpacePx, used for drawing only, is left out )
AuxFlags(t) ==
    [t EXCEPT
       !.radius        = Trunc(QMul(I(t.canvas.height),
                                    IF t.stereo THEN [n |-> 3, d |-> 8]
                                    ELSE [n |-> 1, d |-> 8])),
       !.isOctaveBands = t.mode % 10 # 0,
       !.isLedDisplay  = t.showLeds /\ t.mode % 10 # 0 /\ ~t.radial,
       !.isLumiBars    = t.lumiBars /\ t.mode % 10 # 0 /\ ~t.radial]

\* _calcAux, maximizeLeds and channelHeight: canvas.height - .5 or 0, shifted by isDual
AuxChannel(t) ==
    [t EXCEPT
       !.maximizeLeds  = ~t.stereo \/ (QLt(I(0), t.reflexRatio) /\ ~t.isLumiBars),
       !.channelHeight =
           IF t.stereo /\ ~t.radial
           THEN Trunc(IF ~t.isLedDisplay THEN QSub(I(t.canvas.height), Half)
                      ELSE I(t.canvas.height)) \div 2
           ELSE t.canvas.height]

\* _calcAux, analyzerHeight and channelGap
AuxHeights(t) ==
    [t EXCEPT
       !.analyzerHeight =
           Trunc(QMul(I(t.channelHeight),
                      IF t.isLumiBars \/ t.radial THEN I(1)
                      ELSE QSub(I(1), t.reflexRatio))),
       !.channelGap     =
           IF t.stereo /\ ~t.radial THEN t.canvas.height - t.channelHeight * 2 ELSE 0]

\* _calcAux: auxiliary values and flags
calcAux(t) == AuxHeights(AuxChannel(AuxFlags(t)))

\* Math[ rounding ]( x ); rounding is "round" or "floor"
MathRounding(rounding, x) ==
    IF rounding = "floor" THEN (IF IsFinite(x) THEN I(Floor(x)) ELSE x) ELSE Round(x)

\* the bin as it is rounded, with no upper limit
BinUnclamped(bin, max) == IF IsFinite(bin) THEN bin.n ELSE max

\* bin < max ? bin : max ( NaN and Infinity give max )
BinOrMax(bin, max) == IF QLt(bin, I(max)) THEN bin.n ELSE max

\* _freqToBin: the FFT bin of a frequency
freqToBin(t, freq, rounding) ==
    BinOrMax(MathRounding(rounding, QMul(freq, [n |-> t.fftSize, d |-> SampleRate])),
             BinCount(t) - 1)

\* a new element of this._bars that starts with a peak under way
NewBarWithPeak(posX, dataIdx, endIdx) ==
    [posX |-> posX, dataIdx |-> dataIdx, endIdx |-> endIdx, factor |-> I(0),
     peak |-> <<I(5), I(5)>>, hold |-> <<3, 3>>, accel |-> <<1, 1>>]

\* a new element of this._bars
NewBar(posX, dataIdx, endIdx) ==
    [posX |-> posX, dataIdx |-> dataIdx, endIdx |-> endIdx, factor |-> I(0),
     peak |-> <<I(0), I(0)>>, hold |-> <<Undefined, Undefined>>,
     accel |-> <<Undefined, Undefined>>]

\* Math.log10( binToFreq( i ) ), binToFreq( i ) = i * sampleRate / fftSize
Log10Bin(t, i) ==
    IF i = 0 THEN QNeg(Infinity)
    ELSE [n |-> LogT(i) + LogT(SampleRate) - LogT(t.fftSize), d |-> 10000]

\* the body of the loop with a bar pushed for every bin, whatever its position
PushBinAlways(acc, i, pos) ==
    [bars |-> Append(acc.bars, NewBar(pos, i, 0)), lastPos |-> pos]

\* the body of the loop with the bins that share the position of a bar dropped
PushBinDropping(acc, i, pos) ==
    IF QLt(acc.lastPos, pos)
    THEN [bars |-> Append(acc.bars, NewBar(pos, i, 0)), lastPos |-> pos]
    ELSE acc

\* _calcBars, discrete frequencies, the body of the loop for the bin i at position
\* pos; acc is [bars, lastPos]
PushBin(acc, i, pos) ==
    IF QLt(acc.lastPos, pos)
    THEN [bars |-> Append(acc.bars, NewBar(pos, i, 0)), lastPos |-> pos]
    ELSE IF Len(acc.bars) > 0
    THEN [acc EXCEPT !.bars[Len(acc.bars)].endIdx = i]
    ELSE acc

\* _calcBars, discrete frequencies: the loop over the bins i .. maxIndex
RECURSIVE DiscreteBars(_, _, _, _, _, _)
DiscreteBars(t, minLog, logWidth, i, maxIndex, acc) ==
    IF i > maxIndex THEN acc.bars
    ELSE Then(PushBin(acc, i, Round(QMul(logWidth, QSub(Log10Bin(t, i), minLog)))),
              LAMBDA a : DiscreteBars(t, minLog, logWidth, i + 1, maxIndex, a))

notesPerBand(mode) == <<1, 2, 3, 4, 6, 8, 12, 24>>[mode]

\* whether the i-th note, of frequency freq, is kept in the tempered scale
InScale(t, i, freq) ==
    /\ QLe(freq, I(t.maxFreq))
    /\ QLe(I(t.minFreq), freq)
    /\ i % notesPerBand(t.mode) = 0

\* the notes kept of the equal tempered scale, by their index i
temperedScale(t) ==
    SelectSeq([k \in 1..NoteCount |-> k - 1], LAMBDA i : InScale(t, i, NoteFreq(i)))

\* the interpolation factors ( i + 1 ) / nBars of the last nBars bars
SetFactors(bars, nBars) ==
    [k \in 1..Len(bars) |->
        IF k > Len(bars) - nBars
        THEN [bars[k] EXCEPT !.factor = Q(k - (Len(bars) - nBars), nBars)]
        ELSE bars[k]]

\* _calcBars, octave bands, the body of the forEach for a band whose bar reads from
\* idx and whose bins end at prevBin; acc is [bars, prevBin, prevIdx, nBars]
PushBand(acc, posX, idx, prevBin) ==
    [bars    |-> Append(IF idx # acc.prevIdx /\ acc.nBars > 1
                        THEN SetFactors(acc.bars, acc.nBars) ELSE acc.bars,
                        NewBar(posX, idx, IF prevBin - idx > 0 THEN prevBin ELSE 0)),
     prevBin |-> prevBin,
     prevIdx |-> idx,
     nBars   |-> IF idx = acc.prevIdx THEN acc.nBars + 1 ELSE 1]

\* the first bin of a band: the one after the last band's, or the band's own
FirstBin(prevBin, bin) == IF prevBin > 0 /\ prevBin + 1 <= bin THEN prevBin + 1 ELSE bin

\* the last bin of a band: half the way to the next band's bin
\* ( Math.round( k / 2 ) is ( k + 1 ) \div 2 for k > 1 )
LastBin(bin, nextBin) ==
    IF nextBin - bin > 1 THEN bin + (nextBin - bin + 1) \div 2 ELSE bin

\* _calcBars, octave bands: the forEach over the bands from the index-th on, bins
\* being the bin of each band's frequency
RECURSIVE OctaveBars(_, _, _, _)
OctaveBars(barWidth, bins, index, acc) ==
    IF index >= Len(bins) THEN acc.bars
    ELSE Then(PushBand(acc, QMul(I(index), barWidth),
                       FirstBin(acc.prevBin, bins[index + 1]),
                       LastBin(bins[index + 1],
                               bins[IF index < Len(bins) - 1 THEN index + 2
                                    ELSE index + 1])),
              LAMBDA a : OctaveBars(barWidth, bins, index + 1, a))

\* the LED parameters of the modes 1 .. 8: maxLeds, spaceVRatio, spaceHRatio
LedTable ==
    << <<I(128), I(3),  [n |-> 9, d |-> 20]>>,
       <<I(128), I(4),  [n |-> 9, d |-> 40]>>,
       <<I(96),  I(6),  [n |-> 9, d |-> 40]>>,
       <<I(80),  I(6),  [n |-> 9, d |-> 40]>>,
       <<I(80),  I(6),  [n |-> 1, d |-> 8]>>,
       <<I(64),  I(6),  [n |-> 1, d |-> 8]>>,
       <<I(48),  I(8),  [n |-> 1, d |-> 8]>>,
       <<I(24),  I(16), [n |-> 1, d |-> 8]>> >>

\* _calcLeds, custom parameters: the do .. while that lowers ledCount; it answers
\* <<ledCount, spaceV>>
RECURSIVE LedLoop(_, _, _, _)
\* the test of the do .. while without the minimum of the vertical spacing
LedWhileBlockOnly(ledCount, analyzerHeight, spaceVRatio, minHeight, blockHeight, spaceV) ==
    IF QLt(blockHeight, minHeight) /\ ledCount > 1
    THEN LedLoop(ledCount, analyzerHeight, spaceVRatio, minHeight)
    ELSE <<ledCount, spaceV>>

LedWhile(ledCount, analyzerHeight, spaceVRatio, minHeight, blockHeight, spaceV) ==
    IF (QLt(blockHeight, minHeight) \/ QLt(spaceV, minHeight)) /\ ledCount > 1
    THEN LedLoop(ledCount, analyzerHeight, spaceVRatio, minHeight)
    ELSE <<ledCount, spaceV>>

LedBlock(ledCount, analyzerHeight, spaceVRatio, minHeight, blockHeight) ==
    LedWhile(ledCount, analyzerHeight, spaceVRatio, minHeight, blockHeight,
             QMul(blockHeight, spaceVRatio))

LedLoop(ledCount, analyzerHeight, spaceVRatio, minHeight) ==
    LedBlock(ledCount - 1, analyzerHeight, spaceVRatio, minHeight,
             QDiv(QDiv(analyzerHeight, I(ledCount - 1)), QAdd(I(1), spaceVRatio)))

\* _calcLeds, default parameters: the vertical spacing, at least 2px
DefaultSpaceV(t, spaceVRatio) ==
    QMin(QMul(spaceVRatio, t.pixelRatio),
         QMax(I(2), I(Trunc(QAdd(QDiv(I(t.analyzerHeight), QDiv(I(540), spaceVRatio)),
                                 [n |-> 1, d |-> 10])))))

\* this._leds = [ ledCount, spaceH, spaceV, ledHeight ]
LedsArray(t, spaceHRatio, ledCount, spaceV, analyzerHeight) ==
    << ledCount,
       IF QLe(I(1), spaceHRatio) THEN spaceHRatio ELSE QMul(t.barWidth, spaceHRatio),
       spaceV,
       QSub(QDiv(analyzerHeight, ledCount), spaceV) >>

\* _calcLeds from the count of LEDs on: custom is <<>> or what LedLoop answered
LedsCounted(t, params, custom, spaceV, analyzerHeight) ==
    LedsArray(t, params[3],
              IF custom # <<>> THEN I(custom[1])
              ELSE QMin(params[1], I(Trunc(QDiv(analyzerHeight, QMul(spaceV, I(2)))))),
              spaceV, analyzerHeight)

\* _calcLeds from the extra spacing on
LedsSpaced(t, params, custom, spaceV) ==
    LedsCounted(t, params, custom, spaceV,
                IF t.maximizeLeds THEN QAdd(I(t.analyzerHeight), spaceV)
                ELSE I(t.analyzerHeight))

\* _calcLeds for the parameters params
LedsFor(t, params, custom) ==
    LedsSpaced(t, params, custom,
               IF custom # <<>> THEN custom[2] ELSE DefaultSpaceV(t, params[2]))

\* _calcLeds: ledParams is <<>> when no custom parameters are set
calcLeds(t) ==
    IF ~t.isOctaveBands \/ ~t.ready THEN t
    ELSE IF t.ledParams # <<>>
    THEN [t EXCEPT !.leds =
             LedsFor(t, t.ledParams,
                     LedLoop(t.ledParams[1].n + 1, I(t.analyzerHeight), t.ledParams[2],
                             QMul(I(2), t.pixelRatio)))]
    ELSE [t EXCEPT !.leds = LedsFor(t, LedTable[t.mode], <<>>)]

\* the bin of each frequency of the scale
ScaleBins(t, scale) ==
    [k \in 1..Len(scale) |-> freqToBin(t, NoteFreq(scale[k]), "round")]

\* _calcBars, octave bands
OctaveLayout(t, scale) ==
    [t EXCEPT
       !.barWidth = Q(t.canvas.width, Len(scale)),
       !.bars     = OctaveBars(Q(t.canvas.width, Len(scale)), ScaleBins(t, scale), 0,
                               [bars |-> <<>>, prevBin |-> 0, prevIdx |-> -1, nBars |-> 0])]

\* _calcBars, discrete frequencies
DiscreteLayout(t, minLog, maxLog) ==
    [t EXCEPT
       !.barWidth = I(1),
       !.bars     = DiscreteBars(t, minLog, QDiv(I(t.canvas.width), QSub(maxLog, minLog)),
                                 freqToBin(t, I(t.minFreq), "floor"),
                                 freqToBin(t, I(t.maxFreq), "round"),
                                 [bars |-> <<>>, lastPos |-> I(-999)])]

\* _calcBars: the bar list, then _calcAux and _calcLeds ( the scale canvases that
\* _createScales draws, with _minLog and _logWidth, are not part of the model )
calcBars(t) ==
    IF ~t.ready THEN [t EXCEPT !.bars = <<>>]
    ELSE calcLeds(calcAux(IF ~t.isOctaveBands
                          THEN DiscreteLayout(t, Log10(t.minFreq), Log10(t.maxFreq))
                          ELSE OctaveLayout(t, temperedScale(t))))

\* the position of a color stop counted as index / colorStops.length
StopPosByLength(colorStops, index) ==
    IF colorStops[index + 1].hasPos THEN colorStops[index + 1].pos
    ELSE Q(index, Len(colorStops))

\* colorInfo.pos !== undefined ? colorInfo.pos : index / maxIndex
StopPos(colorStops, index) ==
    IF colorStops[index + 1].hasPos THEN colorStops[index + 1].pos
    ELSE Q(index, Len(colorStops) - 1)

\* _makeGrad: the offset kept out of the first reflex area in split mode
SkipReflex(t, dual, offset) ==
    IF ~dual /\ QLt(QMul(Half, QSub(I(1), t.reflexRatio)), offset)
    THEN QAdd(offset, QMul(Half, t.reflexRatio))
    ELSE offset

\* _makeGrad: the offset, halved in dual mode, constrained to the analyzer areas
Constrained(t, isHorizontal, dual, offset) ==
    IF t.stereo /\ ~t.isLumiBars /\ ~t.radial /\ ~isHorizontal
    THEN SkipReflex(t, dual, QMul(IF dual THEN QMul(offset, Half) ELSE offset,
                                  QSub(I(1), t.reflexRatio)))
    ELSE IF dual THEN QMul(offset, Half) ELSE offset

\* the color stops added for one color: one at .5 before it ( first ), the stop
\* itself, one at .5 after it ( last ) when it lies in the first half
AddStops(first, last, offset, color) ==
    (IF first THEN << [offset |-> Half, color |-> color] >> ELSE <<>>)
    \o << [offset |-> offset, color |-> color] >>
    \o (IF last /\ QLt(offset, Half) THEN << [offset |-> Half, color |-> color] >>
        ELSE <<>>)

\* _makeGrad: the color stops added for colorStops[ index ] on one channel, offset
\* being the constrained offset
ChannelStops(t, colorStops, channel, index, offset) ==
    IF channel = 1 /\ (t.radial \/ t.isLumiBars)
    THEN AddStops(FALSE, t.stereo /\ index = Len(colorStops) - 1,
                  QSub(I(1), QMul(StopPos(colorStops, Len(colorStops) - 1 - index), Half)),
                  colorStops[Len(colorStops) - index].color)
    ELSE IF channel = 1
    THEN AddStops(index = 0 /\ QLt(I(0), offset), t.stereo /\ index = Len(colorStops) - 1,
                  QAdd(offset, Half), colorStops[index + 1].color)
    ELSE AddStops(FALSE, t.stereo /\ index = Len(colorStops) - 1, offset,
                  colorStops[index + 1].color)

\* _makeGrad: the loops over the channels and the color stops, from ( channel, index )
\* on, stops being the color stops added so far
RECURSIVE GradStops(_, _, _, _, _, _, _)
GradStops(t, colorStops, isHorizontal, dual, channel, index, stops) ==
    IF channel > (IF dual THEN 1 ELSE 0) THEN stops
    ELSE IF index >= Len(colorStops)
    THEN GradStops(t, colorStops, isHorizontal, dual, channel + 1, 0, stops)
    ELSE Then(stops \o ChannelStops(t, colorStops, channel, index,
                                    Constrained(t, isHorizontal, dual,
                                                StopPos(colorStops, index))),
              LAMBDA s : GradStops(t, colorStops, isHorizontal, dual, channel,
                                   index + 1, s))

\* _makeGrad: the gradient's geometry and color stops for the gradient grad
GradientOf(t, grad, isHorizontal) ==
    [shape    |-> IF t.radial THEN "radial" ELSE "linear",
     geometry |->
         IF t.radial
         THEN <<t.canvas.width \div 2, t.canvas.height \div 2, t.canvas.height \div 2,
                t.canvas.width \div 2, t.canvas.height \div 2,
                t.radius - (IF t.stereo THEN t.canvas.height \div 2 - t.radius ELSE 0)>>
         ELSE <<0, 0, IF isHorizontal THEN t.canvas.width ELSE 0,
                IF isHorizontal THEN 0
                ELSE IF t.isLumiBars THEN t.canvas.height
                ELSE Trunc(QMul(I(t.canvas.height),
                                IF t.stereo THEN I(1) ELSE QSub(I(1), t.reflexRatio)))>>,
     stops    |-> GradStops(t, grad.colorStops, isHorizontal,
                            t.stereo /\ ~t.splitGradient /\ ~isHorizontal, 0, 0, <<>>)]

\* _makeGrad: this._canvasGradient
makeGrad(t) ==
    IF ~t.ready THEN t
    ELSE [t EXCEPT !.canvasGradient =
             GradientOf(t, t.gradients[t.gradient], t.gradients[t.gradient].dir = "h")]

\* _setCanvas once the new dimensions are known
Resized(t, newWidth, newHeight) ==
    IF t.canvas.width = newWidth /\ t.canvas.height = newHeight THEN t
    ELSE calcBars(makeGrad(calcAux(
             [t EXCEPT !.canvas = [width |-> newWidth, height |-> newHeight]])))

\* _setCanvas: the canvas takes the size asked for; when it changes, everything
\* derived from it is recomputed ( fullscreen and onCanvasResize are not modelled;
\* 0 stands for a width or height that is not set )
setCanvas(t) ==
    IF ~t.ready THEN t
    ELSE Resized([t EXCEPT !.pixelRatio = I(DevicePixelRatio)],
                 Trunc(QMul(I(IF t.width # 0 THEN t.width ELSE ClientWidth),
                            I(DevicePixelRatio))),
                 Trunc(QMul(I(IF t.height # 0 THEN t.height ELSE ClientHeight),
                            I(DevicePixelRatio))))

---------------------------------------------------------------------------
(* The setters and methods that change the configuration.  Each answers    *)
(* [t, err]: the instance after the call and the code of the error thrown, *)
(* "" when the call returned.                                              *)

Ok(t) == [t |-> t, err |-> ""]

Throw(t, code) == [t |-> t, err |-> code]

\* set mode with the mode stored before it is validated
setModeUnchecked(t, value) ==
    IF Trunc(value) >= 0 /\ Trunc(value) <= 10 /\ Trunc(value) # 9
    THEN Ok(makeGrad(calcBars(calcAux([t EXCEPT !.mode = Trunc(value)]))))
    ELSE Throw([t EXCEPT !.mode = Trunc(value)], "ERR_INVALID_MODE")

\* set mode( value ); value is a number
setMode(t, value) ==
    LET mode == Trunc(value)
    IN  IF mode >= 0 /\ mode <= 10 /\ mode # 9
        THEN Ok(makeGrad(calcBars(calcAux([t EXCEPT !.mode = mode]))))
        ELSE Throw(t, "ERR_INVALID_MODE")

\* set fftSize( value ): the analyzer nodes refuse a size that is not a power of 2
\* from 32 to 32768; the data arrays are new ( all zero )
setFftSize(t, value) ==
    IF value \notin {32, 64, 128, 256, 512, 1024, 2048, 4096, 8192, 16384, 32768}
    THEN Throw(t, "IndexSizeError")
    ELSE LET zeros == [i \in 0..(value \div 2 - 1) |-> 0]
         IN  Ok(calcBars([t EXCEPT !.fftSize = value, !.fftData = <<zeros, zeros>>]))

\* set gradient( value )
setGradient(t, value) ==
    IF value \notin DOMAIN t.gradients THEN Throw(t, "ERR_UNKNOWN_GRADIENT")
    ELSE Ok(makeGrad([t EXCEPT !.gradient = value]))

\* set height( h ), set width( w ): 0 stands for undefined
setHeight(t, h) == Ok(setCanvas([t EXCEPT !.height = h]))

setWidth(t, w) == Ok(setCanvas([t EXCEPT !.width = w]))

\* setCanvasSize( w, h )
setCanvasSize(t, w, h) == Ok(setCanvas([t EXCEPT !.width = w, !.height = h]))

\* set lumiBars( value )
setLumiBars(t, value) == Ok(makeGrad(calcLeds(calcAux([t EXCEPT !.lumiBars = value]))))

\* set radial( value )
setRadial(t, value) == Ok(makeGrad(calcLeds(calcAux([t EXCEPT !.radial = value]))))

\* set spinSpeed( value ): the angle, counted in steps of RPM from -HALF_PI, is
\* reset when the speed is set to 0 ( and when it is first set )
setSpinSpeed(t, value) ==
    Ok([t EXCEPT !.spinAngle = IF value.n = 0 THEN I(0) ELSE @, !.spinSpeed = value])

\* set reflexRatio with the ratio stored before it is validated
setReflexRatioUnchecked(t, value) ==
    IF QLt(value, I(0)) \/ QLe(I(1), value)
    THEN Throw([t EXCEPT !.reflexRatio = value], "ERR_REFLEX_OUT_OF_RANGE")
    ELSE Ok(calcLeds(makeGrad(calcAux([t EXCEPT !.reflexRatio = value]))))

\* set reflexRatio( value ); value is a number
setReflexRatio(t, value) ==
    LET v == IF IsNaN(value) THEN I(0) ELSE value
    IN  IF QLt(v, I(0)) \/ QLe(I(1), v) THEN Throw(t, "ERR_REFLEX_OUT_OF_RANGE")
        ELSE Ok(calcLeds(makeGrad(calcAux([t EXCEPT !.reflexRatio = v]))))

\* set minFreq( value ), set maxFreq( value ); value is a whole number
setMinFreq(t, value) ==
    IF value < 1 THEN Throw(t, "ERR_FREQUENCY_TOO_LOW")
    ELSE Ok(calcBars([t EXCEPT !.minFreq = value]))

setMaxFreq(t, value) ==
    IF value < 1 THEN Throw(t, "ERR_FREQUENCY_TOO_LOW")
    ELSE Ok(calcBars([t EXCEPT !.maxFreq = value]))

\* set barSpace( value ): _barSpace and _barSpacePx are used for drawing only and are
\* not part of the model
setBarSpace(t, value) == Ok(calcAux(t))

\* set showLeds( value )
setShowLeds(t, value) == Ok(calcAux([t EXCEPT !.showLeds = value]))

\* set splitGradient( value )
setSplitGradient(t, value) == Ok(makeGrad([t EXCEPT !.splitGradient = value]))

\* the elements of an array
Range(s) == {s[k] : k \in 1..Len(s)}

\* connectOutput( node ) with no test of this._outNodes.includes( node )
connectOutputUnchecked(t, node) ==
    Ok([t EXCEPT !.outputTo   = @ \cup {node},
                 !.outNodes   = Append(@, node),
                 !.analyzerTo = IF Len(t.outNodes) = 0
                                THEN << @[1] \cup {IF ~t.stereo THEN "output" ELSE "merger"},
                                        @[2] \cup {"merger"} >>
                                ELSE @])

\* connectOutput( node ); node is "destination" when the call gives none.  Each audio
\* node is known by the set of nodes it feeds: inputTo for this._input, outputTo for
\* this._output, analyzerTo[1] and analyzerTo[2] for this._analyzer[0] and [1]
connectOutput(t, node) ==
    IF node \in Range(t.outNodes) THEN Ok(t)
    ELSE Ok([t EXCEPT !.outputTo   = @ \cup {node},
                      !.outNodes   = Append(@, node),
                      !.analyzerTo = IF Len(t.outNodes) = 0
                                     THEN << @[1] \cup {IF ~t.stereo THEN "output"
                                                        ELSE "merger"},
                                             @[2] \cup {"merger"} >>
                                     ELSE @])

\* this._outNodes.filter( e => e !== node )
Without(nodes, node) == SelectSeq(nodes, LAMBDA e : e # node)

\* disconnectOutput( node ); node is "" when the call gives none
disconnectOutput(t, node) ==
    IF node # "" /\ node \notin Range(t.outNodes) THEN Ok(t)
    ELSE Ok([t EXCEPT !.outputTo   = IF node # "" THEN @ \ {node} ELSE {},
                      !.outNodes   = IF node # "" THEN Without(@, node) ELSE <<>>,
                      !.analyzerTo = IF node = "" \/ Without(t.outNodes, node) = <<>>
                                     THEN << {}, {} >> ELSE @])

\* set stereo, the node connections: the input feeds the splitter or the first
\* analyzer, which feeds the merger or the output when the output is connected
StereoRouted(t) ==
    [t EXCEPT !.inputTo    = {IF t.stereo THEN "splitter" ELSE "analyzer0"},
              !.analyzerTo = << IF t.outNodes # <<>>
                                THEN {IF t.stereo THEN "merger" ELSE "output"}
                                ELSE {},
                                @[2] >>]

\* set stereo( value ) ( _createScales only draws )
setStereo(t, value) ==
    Ok(makeGrad(calcLeds(calcAux(StereoRouted([t EXCEPT !.stereo = value])))))

\* registerGradient( name, options ): options is "notAnObject", or a record whose
\* colorStops is a list of stops; hasStops tells whether options.colorStops is defined
registerGradient(t, name, options) ==
    IF name = "" THEN Throw(t, "ERR_GRADIENT_INVALID_NAME")
    ELSE IF ~options.isObject THEN Throw(t, "ERR_GRADIENT_NOT_AN_OBJECT")
    ELSE IF ~options.hasStops \/ Len(options.colorStops) < 2
    THEN Throw(t, "ERR_GRADIENT_MISSING_COLOR")
    ELSE LET def == [bgColor |-> IF options.bgColor # "" THEN options.bgColor ELSE "#111",
                     dir |-> options.dir,
                     colorStops |-> options.colorStops]
         IN  Ok([t EXCEPT !.gradients =
                     [g \in DOMAIN @ \cup {name} |-> IF g = name THEN def ELSE @[g]]])

\* setFreqRange( min, max )
setFreqRange(t, min, max) ==
    IF min < 1 \/ max < 1 THEN Throw(t, "ERR_FREQUENCY_TOO_LOW")
    ELSE Ok(calcBars([t EXCEPT !.minFreq = IF min < max THEN min ELSE max,
                               !.maxFreq = IF min < max THEN max ELSE min]))

\* setLedParams( params ): the three values read from params are declared again
\* inside the if block, so the ones tested stay undefined and nothing is ever stored
setLedParams(t, params) == Ok(calcLeds([t EXCEPT !.ledParams = <<>>]))

---------------------------------------------------------------------------
(* The frame loop.  A world w = [am, win, stopped, ret] is the instance,   *)
(* the window's pending animation frames, whether the last toggleAnalyzer  *)
(* that took effect as a stop has answered false with no start asked for   *)
(* since, and what the last toggleAnalyzer returned.                       *)

\* the most animation frames the model lets be pending at once
MaxPending == 3

\* get isOn(): this._runId !== undefined ( 0 stands for undefined; the handles
\* requestAnimationFrame returns are greater than zero )
isOn(t) == t.runId # 0

\* the smallest handle of the set free, 0 when there is none
Smallest(free) == IF free = {} THEN 0 ELSE CHOOSE i \in free : \A j \in free : i <= j

\* the handle of a new request: one that no pending request has and that the
\* instance does not hold; 0 when the model's bound leaves none
Fresh(w) ==
    IF Cardinality(w.win.pending) >= MaxPending THEN 0
    ELSE Smallest({i \in 1..(MaxPending + 1) : i \notin w.win.pending /\ i # w.am.runId})

\* this._runId = requestAnimationFrame( timestamp => this._draw( timestamp ) ), id
\* being the handle the window gives
Requested(w, id) == [w EXCEPT !.am.runId = id, !.win.pending = @ \cup {id}]

requestFrame(w) == Requested(w, Fresh(w))

\* toggleAnalyzer, from its return on: the answer is this.isOn
Answered(w, value) ==
    [w EXCEPT !.ret = isOn(w.am),
              !.stopped = IF value THEN FALSE ELSE ~isOn(w.am)]

\* toggleAnalyzer with the test of started left out of the start: a frame is asked
\* for whenever value is true
ToggledUnchecked(w, started, value) ==
    Answered(IF value
             THEN requestFrame([w EXCEPT !.am.frame = 0, !.am.fps = I(0), !.am.time = 0])
             ELSE IF started
             THEN [w EXCEPT !.win.pending = @ \ {w.am.runId}, !.am.runId = 0]
             ELSE w,
             value)

\* toggleAnalyzer once value is a boolean.
\* this._time is kept relative to the current instant: 0 is now
Toggled(w, started, value) ==
    Answered(IF started /\ ~value
             THEN [w EXCEPT !.win.pending = @ \ {w.am.runId}, !.am.runId = 0]
             ELSE IF ~started /\ value
             THEN requestFrame([w EXCEPT !.am.frame = 0, !.am.fps = I(0), !.am.time = 0])
             ELSE w,
             value)

\* toggleAnalyzer( value ); value is "true", "false" or "undefined"
toggleAnalyzer(w, value) ==
    Toggled(w, isOn(w.am), IF value = "undefined" THEN ~isOn(w.am) ELSE value = "true")

---------------------------------------------------------------------------
(* setOptions and the constructor *)

\* this[ prop ] = value for one property of _setProps' validProps ( the properties
\* that only set a drawing attribute or an audio node's parameter are left out )
setProp(t, prop, value) ==
    CASE prop = "mode"          -> setMode(t, value)
      [] prop = "fftSize"       -> setFftSize(t, value)
      [] prop = "minFreq"       -> setMinFreq(t, value)
      [] prop = "maxFreq"       -> setMaxFreq(t, value)
      [] prop = "gradient"      -> setGradient(t, value)
      [] prop = "showLeds"      -> setShowLeds(t, value)
      [] prop = "lumiBars"      -> setLumiBars(t, value)
      [] prop = "reflexRatio"   -> setReflexRatio(t, value)
      [] prop = "radial"        -> setRadial(t, value)
      [] prop = "spinSpeed"     -> setSpinSpeed(t, value)
      [] prop = "stereo"        -> setStereo(t, value)
      [] prop = "splitGradient" -> setSplitGradient(t, value)
      [] prop = "onCanvasDraw"  -> Ok([t EXCEPT !.onCanvasDraw = value])
      [] prop = "height"        -> setHeight(t, value)
      [] prop = "width"         -> setWidth(t, value)
      [] OTHER                  -> Ok(t)

\* _setProps: the for loop over Object.keys( options ), from the k-th key; an error
\* thrown by a setter ends the loop and the call
RECURSIVE setPropsFrom(_, _, _)
NextProp(r, options, k) ==
    IF r.err # "" THEN r ELSE setPropsFrom(r.t, options, k)

setPropsFrom(t, options, k) ==
    IF k > Len(options) THEN Ok(t)
    ELSE NextProp(setProp(t, options[k][1], options[k][2]), options, k + 1)

\* the values options gives the key "start"
StartOf(options) == {options[k][2] : k \in {j \in 1..Len(options) : options[j][1] = "start"}}

\* _setProps from the end of its loop on, r being what the loop answered
AfterProps(w, r, start) ==
    IF r.err = "" /\ start # {}
    THEN [w |-> toggleAnalyzer([w EXCEPT !.am = r.t], CHOOSE s \in start : TRUE),
          err |-> ""]
    ELSE [w |-> [w EXCEPT !.am = r.t], err |-> r.err]

\* _setProps( options ): [w, err]
setProps(w, options) == AfterProps(w, setPropsFrom(w.am, options, 1), StartOf(options))


\* setOptions( options ), options being given: [w, err]
setOptions(w, options) == setProps(w, options)

\* the defaults of _setProps, in the order of their keys
Defaults ==
    << <<"mode", I(0)>>, <<"fftSize", 8192>>, <<"minFreq", 20>>, <<"maxFreq", 22000>>,
       <<"gradient", "classic">>, <<"showLeds", FALSE>>, <<"lumiBars", FALSE>>,
       <<"reflexRatio", I(0)>>, <<"radial", FALSE>>, <<"spinSpeed", I(0)>>,
       <<"stereo", FALSE>>, <<"splitGradient", FALSE>>, <<"start", "true">> >>

\* Object.assign( defaults, options ): the defaults' keys first, with the values the
\* options give them, then the options' other keys
Assign(defaults, options) ==
    LET Given(p) == {k \in 1..Len(options) : options[k][1] = p}
        IsNew(o) == \A k \in 1..Len(defaults) : defaults[k][1] # o[1]
    IN  [k \in 1..Len(defaults) |->
            IF Given(defaults[k][1]) = {} THEN defaults[k]
            ELSE options[CHOOSE j \in Given(defaults[k][1]) : TRUE]]
        \o SelectSeq(options, IsNew)

Stop(color) == [hasPos |-> FALSE, pos |-> I(0), color |-> color]

StopAt(pos, color) == [hasPos |-> TRUE, pos |-> pos, color |-> color]

\* this._gradients of the constructor
BuiltInGradients ==
    [g \in {"classic", "prism", "rainbow"} |->
        CASE g = "classic" ->
               [bgColor |-> "#111", dir |-> "",
                colorStops |-> <<Stop("hsl( 0, 100%, 50% )"),
                                 StopAt(Q(6, 10), "hsl( 60, 100%, 50% )"),
                                 Stop("hsl( 120, 100%, 50% )")>>]
          [] g = "prism" ->
               [bgColor |-> "#111", dir |-> "",
                colorStops |-> <<Stop("hsl( 0, 100%, 50% )"), Stop("hsl( 60, 100%, 50% )"),
                                 Stop("hsl( 120, 100%, 50% )"), Stop("hsl( 180, 100%, 50% )"),
                                 Stop("hsl( 240, 100%, 50% )")>>]
          [] g = "rainbow" ->
               [bgColor |-> "#111", dir |-> "h",
                colorStops |-> <<Stop("hsl( 0, 100%, 50% )"), Stop("hsl( 60, 100%, 50% )"),
                                 Stop("hsl( 120, 100%, 50% )"), Stop("hsl( 180, 100%, 47% )"),
                                 Stop("hsl( 240, 100%, 58% )"), Stop("hsl( 300, 100%, 50% )"),
                                 Stop("hsl( 360, 100%, 50% )")>>]]

\* the instance when the constructor reaches this._calcAux(): nothing is configured
\* yet; the canvas is a new one ( 300 x 150 )
Blank ==
    [ready |-> FALSE, gradients |-> BuiltInGradients,
     mode |-> 0, fftSize |-> 2048, minFreq |-> 0, maxFreq |-> 0, gradient |-> "",
     showLeds |-> FALSE, lumiBars |-> FALSE, reflexRatio |-> I(0), radial |-> FALSE,
     spinSpeed |-> I(0), spinAngle |-> I(0), stereo |-> FALSE, splitGradient |-> FALSE,
     onCanvasDraw |-> <<>>, height |-> 0, width |-> 0, ledParams |-> <<>>,
     canvas |-> [width |-> 300, height |-> 150], pixelRatio |-> I(1),
     radius |-> 0, isOctaveBands |-> FALSE, isLedDisplay |-> FALSE, isLumiBars |-> FALSE,
     maximizeLeds |-> FALSE, channelHeight |-> 0, analyzerHeight |-> 0, channelGap |-> 0,
     barWidth |-> I(1), bars |-> <<>>, leds |-> <<>>,
     canvasGradient |-> [shape |-> "", geometry |-> <<>>, stops |-> <<>>],
     fftData |-> <<[i \in 0..1023 |-> 0], [i \in 0..1023 |-> 0]>>,
     energy |-> [val |-> I(0), peak |-> [v |-> I(0), decay |-> <<>>], hold |-> 0],
     frame |-> 0, fps |-> I(0), time |-> 0, runId |-> 0,
     outNodes |-> <<>>, inputTo |-> {}, outputTo |-> {}, analyzerTo |-> << {}, {} >>]


\* the constructor's last steps: this._ready = true; this._setCanvas('create')
Ready(w) == [w EXCEPT !.am = setCanvas([w.am EXCEPT !.ready = TRUE])]

\* the constructor's audio nodes: the output is connected to the speakers unless
\* options.connectSpeakers is false
Speakers(t, options) ==
    IF \E k \in 1..Len(options) :
           options[k][1] = "connectSpeakers" /\ options[k][2] = FALSE
    THEN t
    ELSE connectOutput(t, "destination").t

\* new AudioMotionAnalyzer( container, options ): the world it leaves
Construct(options) ==
    Ready(setProps([am |-> calcAux(Speakers(Blank, options)), win |-> [pending |-> {}],
                    stopped |-> FALSE, ret |-> FALSE],
                   Assign(Defaults, options)).w)

---------------------------------------------------------------------------
(* _draw: one frame *)

\* fftData[ i ]: undefined ( NaN in the arithmetic ) outside the array
At(fftData, i) == IF i \in DOMAIN fftData THEN I(fftData[i]) ELSE NaN

\* prevBar + ( barHeight - prevBar ) * bar.factor when the bar has a factor
Interpolated(barHeight, prevBar, factor) ==
    IF factor.n # 0 THEN QAdd(prevBar, QMul(QSub(barHeight, prevBar), factor))
    ELSE barHeight

\* the highest value of a range of bins, at least 0
RangeMax(fftData, range) ==
    IF range \subseteq DOMAIN fftData
    THEN I(CHOOSE m \in {0} \cup {fftData[j] : j \in range} :
               \A j \in range : fftData[j] <= m)
    ELSE NaN

\* the value of a bar, 0 .. 255: its bin, interpolated with the bin before when the
\* bar has a factor, or the highest value of its range of bins
BarValue(bar, fftData) ==
    IF bar.endIdx = 0
    THEN Interpolated(At(fftData, bar.dataIdx),
                      At(fftData, IF bar.dataIdx # 0 THEN bar.dataIdx - 1 ELSE bar.dataIdx),
                      bar.factor)
    ELSE RangeMax(fftData, bar.dataIdx..bar.endIdx)

\* this._leds[ k ], undefined ( NaN ) before _calcLeds has run
Led(t, k) == IF t.leds = <<>> THEN NaN ELSE t.leds[k]

\* if ( barHeight < 0 ) barHeight = 0
NotBelowZero(barHeight) == IF QLt(barHeight, I(0)) THEN I(0) ELSE barHeight

\* the height in pixels of a bar of normalized height barHeight ( 0 .. 1 )
PixelHeight(t, barHeight) ==
    IF t.isLedDisplay
    THEN NotBelowZero(QSub(QMul(I(Trunc(QMul(barHeight, Led(t, 1)))),
                                QAdd(Led(t, 4), Led(t, 3))),
                           Led(t, 3)))
    ELSE I(Trunc(QMul(barHeight,
                      I(IF t.radial THEN t.canvas.height \div 2 - t.radius
                        ELSE t.analyzerHeight))))

\* the height in pixels of a bar for the data of its channel
BarHeight(t, bar, fftData) ==
    PixelHeight(t, QMul(BarValue(bar, fftData), [n |-> 1, d |-> 255]))

\* the capture with > in the place of >= : a bar as high as its peak is not captured
PeakCaptureStrict(bar, c, barHeight) ==
    IF QLt(bar.peak[c], barHeight)
    THEN [bar EXCEPT !.peak[c] = barHeight, !.hold[c] = HoldFrames, !.accel[c] = 0]
    ELSE bar

\* a bar at least as high as its peak becomes the peak, held for 30 frames
PeakCapture(bar, c, barHeight) ==
    IF QLe(bar.peak[c], barHeight)
    THEN [bar EXCEPT !.peak[c] = barHeight, !.hold[c] = HoldFrames, !.accel[c] = 0]
    ELSE bar

\* the decay without its test of the peak being above 1 pixel
PeakDecayUnguarded(bar, c) ==
    IF bar.hold[c] # 0 /\ bar.hold[c] # Undefined
    THEN [bar EXCEPT !.hold[c] = @ - 1]
    ELSE IF bar.accel[c] = Undefined
    THEN [bar EXCEPT !.peak[c] = NaN]
    ELSE [bar EXCEPT !.accel[c] = @ + 1,
                     !.peak[c] = QSub(bar.peak[c], I(bar.accel[c] + 1))]

\* the decay with the acceleration subtracted before it is incremented, and the
\* increment lost: a peak whose hold is over stays where it is
PeakDecayNoAccel(bar, c) ==
    IF QLt(I(1), bar.peak[c])
    THEN IF bar.hold[c] # 0 /\ bar.hold[c] # Undefined
         THEN [bar EXCEPT !.hold[c] = @ - 1]
         ELSE IF bar.accel[c] = Undefined
         THEN [bar EXCEPT !.peak[c] = NaN]
         ELSE [bar EXCEPT !.peak[c] = QSub(bar.peak[c], I(bar.accel[c]))]
    ELSE bar

\* a peak above 1 pixel is held while its hold lasts, and then falls faster and faster
PeakDecay(bar, c) ==
    IF QLt(I(1), bar.peak[c])
    THEN IF bar.hold[c] # 0 /\ bar.hold[c] # Undefined
         THEN [bar EXCEPT !.hold[c] = @ - 1]
         ELSE IF bar.accel[c] = Undefined
         THEN [bar EXCEPT !.peak[c] = NaN]
         ELSE [bar EXCEPT !.accel[c] = @ + 1,
                          !.peak[c] = QSub(bar.peak[c], I(bar.accel[c] + 1))]
    ELSE bar

\* the body of the loop over the bars, for one bar on channel c ( 1 or 2 )
DrawBar(t, bar, c, fftData) ==
    PeakDecay(PeakCapture(bar, c, BarHeight(t, bar, fftData)), c)

\* the bars after the loop over them for channel c
DrawBars(t, bars, c, fftData) ==
    [i \in 1..Len(bars) |-> DrawBar(t, bars[i], c, fftData)]

\* currentEnergy after the bars from the i-th on of one channel have been added to it
RECURSIVE SumBars(_, _, _, _)
SumBars(bars, fftData, i, currentEnergy) ==
    IF i > Len(bars) THEN currentEnergy
    ELSE Then(QAdd(currentEnergy, QMul(BarValue(bars[i], fftData), [n |-> 1, d |-> 255])),
              LAMBDA e : SumBars(bars, fftData, i + 1, e))

\* currentEnergy / ( nBars << isStereo )
EnergyVal(t, data) ==
    QDiv(IF t.stereo THEN SumBars(t.bars, data[2], 1, SumBars(t.bars, data[1], 1, I(0)))
         ELSE SumBars(t.bars, data[1], 1, I(0)),
         I(Len(t.bars) * (IF t.stereo THEN 2 ELSE 1)))

\* The energy peak is kept as the value v it was captured at and the numerators
\* decay[ k ] of the factors decay[ k ] / 30 it has been multiplied by since.
\* x >= the product of the factors from the k-th on ( each at most 1 )
RECURSIVE GeProduct(_, _, _)
GeProduct(x, decay, k) ==
    IF k > Len(decay) \/ QLe(I(1), x) THEN QLe(I(1), x)
    ELSE GeProduct(QMul(x, [n |-> HoldFrames, d |-> decay[k]]), decay, k + 1)

\* energy.val >= energy.peak
GePeak(val, peak) ==
    IF peak.v.n = 0 \/ IsNaN(val) THEN QLe(peak.v, val)
    ELSE GeProduct(QDiv(val, peak.v), peak.decay, 1)

\* energy.peak *= num / 30
MulPeak(peak, num) ==
    IF num = 0 THEN [v |-> I(0), decay |-> <<>>]
    ELSE [peak EXCEPT !.decay = Append(@, num)]

\* the update of this._energy with the frame's energy val
EnergyUpdate(energy, val) ==
    IF GePeak(val, energy.peak)
    THEN [val |-> val, peak |-> [v |-> val, decay |-> <<>>], hold |-> HoldFrames]
    ELSE IF energy.hold > 0
    THEN [energy EXCEPT !.val = val, !.hold = @ - 1]
    ELSE IF QLt(I(0), energy.peak.v)
    THEN [energy EXCEPT !.val = val,
                        !.peak = MulPeak(@, HoldFrames + energy.hold),
                        !.hold = @ - 1]
    ELSE [energy EXCEPT !.val = val]

\* the frame counter and rate: elapsed is timestamp - this._time
FrameRate(t, elapsed) ==
    IF elapsed >= 1000
    THEN [t EXCEPT !.fps = Q((t.frame + 1) * 1000, elapsed), !.frame = 0, !.time = 0]
    ELSE [t EXCEPT !.frame = @ + 1, !.time = -elapsed]

\* the rotation angle advanced on every frame, whatever the energy
SpinAlways(t) == QAdd(t.spinAngle, t.spinSpeed)

\* if ( energy.val > 0 ) this._spinAngle += this._spinSpeed * RPM, at the start of
\* _draw: energy.val is the one the frame before has left
Spin(t) == IF QLt(I(0), t.energy.val) THEN QAdd(t.spinAngle, t.spinSpeed) ELSE t.spinAngle

\* the instance after the body of _draw, up to the callback: timestamp is dt
\* milliseconds after the last frame ( or after the loop was started ), data are the
\* two arrays getByteFrequencyData fills
DrawFrame(t, dt, data) ==
    FrameRate([t EXCEPT
                 !.spinAngle = Spin(t),
                 !.fftData   = IF t.stereo THEN data ELSE <<data[1], @[2]>>,
                 !.bars      = IF t.stereo
                               THEN DrawBars(t, DrawBars(t, t.bars, 1, data[1]), 2, data[2])
                               ELSE DrawBars(t, t.bars, 1, data[1]),
                 !.energy    = EnergyUpdate(@, EnergyVal(t, data))],
              dt - t.time)

\* this.onCanvasDraw( this ): a callback is the list of the toggleAnalyzer calls it
\* makes, <<>> for no callback
RECURSIVE RunCallback(_, _, _)
RunCallback(w, calls, k) ==
    IF k > Len(calls) THEN w
    ELSE RunCallback(toggleAnalyzer(w, calls[k]), calls, k + 1)

\* _draw from the callback on: the callback, and the request for the next frame
AfterFrame(w) == requestFrame(RunCallback(w, w.am.onCanvasDraw, 1))

\* _draw( timestamp ), run by the window for the pending request id
Draw(w, id, dt, data) ==
    AfterFrame([w EXCEPT !.win.pending = @ \ {id}, !.am = DrawFrame(@, dt, data)])

---------------------------------------------------------------------------
(* The state machine *)

\* the time between two frames, in milliseconds
FramePeriod == 500

World == [am |-> am, win |-> win, stopped |-> obs.stopped, ret |-> obs.ret]

\* the next state is the world w; obs tells the call that led to it
Becomes(w, op, arg, err) ==
    /\ 0 \notin w.win.pending
    /\ am' = w.am
    /\ win' = w.win
    /\ obs' = [op |-> op, arg |-> arg, err |-> err, ret |-> w.ret,
               stopped |-> w.stopped, wasOn |-> isOn(am)]

\* the state in which the world is w and no call has been made yet
Starts(w) ==
    /\ am = w.am
    /\ win = w.win
    /\ obs = [op |-> "new", arg |-> "", err |-> "", ret |-> w.ret,
              stopped |-> w.stopped, wasOn |-> FALSE]

\* the state after new AudioMotionAnalyzer( container, options )
Constructed(options) == Starts(Construct(options))

\* an array of n magnitudes: v below the bin k, u from it on
Spectrum(n, k, v, u) == [i \in 0..(n - 1) |-> IF i < k THEN v ELSE u]

\* the window runs a pending frame request
Tick(Data) ==
    \E id \in win.pending, data \in Data :
        Becomes(Draw(World, id, FramePeriod, data), "draw", "", "")

\* a call of toggleAnalyzer from outside a frame
ToggleAnalyzer ==
    \E value \in {"true", "false", "undefined"} :
        Becomes(toggleAnalyzer(World, value), "toggleAnalyzer", value, "")

\* the callbacks of the model: the toggleAnalyzer calls each makes
Callbacks == {<<>>, <<"false">>, <<"false", "true">>, <<"true">>}

\* onCanvasDraw = callback
SetOnCanvasDraw ==
    \E cb \in Callbacks :
        Becomes([World EXCEPT !.am.onCanvasDraw = cb], "onCanvasDraw", "", "")

\* a call of a setter or method that answers [t, err]
Called(r, op) == Becomes([World EXCEPT !.am = r.t], op, "", r.err)

Silence == {<<Spectrum(BinCount(am), 0, 0, 0), Spectrum(BinCount(am), 0, 0, 0)>>}

---------------------------------------------------------------------------
(* The frame loop: an instance that is started, stopped and toggled, from   *)
(* outside and from its onCanvasDraw callback, while the frames run         *)

InitLoop ==
    \E start \in {"true", "false"} :
        Constructed(<< <<"fftSize", 32>>, <<"start", start>> >>)

TickLoop == Tick(Silence)

NextLoop == TickLoop \/ ToggleAnalyzer \/ SetOnCanvasDraw

SpecLoop == InitLoop /\ [][NextLoop]_vars

---------------------------------------------------------------------------
(* The frame loop's claims, under SpecLoop *)

\* C6: toggleAnalyzer( true ) while the loop is on and toggleAnalyzer( false ) while
\* it is off change nothing of the instance nor of the window's pending frames and
\* answer the status; toggleAnalyzer() inverts the status and answers the new one
ToggleIdempotent ==
    [][obs'.op = "toggleAnalyzer" =>
         /\ ( \/ obs'.arg = "true" /\ isOn(am)
              \/ obs'.arg = "false" /\ ~isOn(am) )
            => am' = am /\ win' = win /\ obs'.ret = isOn(am)
         /\ obs'.arg = "undefined"
            => isOn(am') = ~isOn(am) /\ obs'.ret = isOn(am')]_vars

\* toggleAnalyzer( true ) has been called while the loop was on
ToggledOnWhileOn == obs.op = "toggleAnalyzer" /\ obs.arg = "true" /\ obs.wasOn

\* toggleAnalyzer( false ) has been called while the loop was off
ToggledOffWhileOff == obs.op = "toggleAnalyzer" /\ obs.arg = "false" /\ ~obs.wasOn

\* C7: once toggleAnalyzer( false ) has answered false, and until toggleAnalyzer is
\* called to start the loop, the loop is off and no frame is pending ( so no tick
\* runs ), the stop being made from the callback of a running tick or not
StoppedStaysStopped == obs.stopped => ~isOn(am) /\ win.pending = {}

\* C8: at most one frame is pending, and the run id is its handle
SingleFrameLoop ==
    /\ Cardinality(win.pending) <= 1
    /\ win.pending # {} => win.pending = {am.runId}

---------------------------------------------------------------------------
(* The peaks of the bars: an instance of 4 bars ( mode 0, fftSize 32 ), mono *)
(* or stereo, whose frames run on spectra of two levels                     *)

\* the magnitudes of the spectra: in mono they make bars 0, 1, 4, 5 and 10 pixels
\* high, in stereo 0, 0, 1, 2 and 4
Levels == {0, 26, 110, 128, 255}

\* both channels have the same level in every bin
Spectra ==
    {<<Spectrum(BinCount(am), 0, v, v), Spectrum(BinCount(am), 0, v, v)>> : v \in Levels}

InitPeaks ==
    \E stereo \in BOOLEAN :
        Constructed(<< <<"fftSize", 32>>, <<"stereo", stereo>> >>)

TickPeaks == Tick(Spectra)

NextPeaks == TickPeaks

SpecPeaks == InitPeaks /\ [][NextPeaks]_vars

\* the channels _draw goes through
Channels(t) == 1..(IF t.stereo THEN 2 ELSE 1)

\* C1, as stated: at the end of a tick in which a bar's new height is >= its peak,
\* the peak is the new height, the acceleration 0 and the hold 30; and the hold is
\* decremented only on ticks where the new height is below the peak
CaptureLeavesHold30 ==
    [][obs'.op = "draw" =>
         \A i \in 1..Len(am.bars), c \in Channels(am) :
            LET bar       == am.bars[i]
                after     == am'.bars[i]
                barHeight == BarHeight(am, bar, am'.fftData[c])
            IN  /\ QLe(bar.peak[c], barHeight)
                   => /\ after.peak[c] = barHeight
                      /\ after.accel[c] = 0
                      /\ after.hold[c] = HoldFrames
                /\ after.hold[c] < bar.hold[c] => QLt(barHeight, bar.peak[c])]_vars

\* C1, amended: at the end of a tick in which a bar's new height is >= its peak, the
\* peak is the new height, the acceleration 0, and the hold 29 when the new height is
\* above 1 pixel ( the counter is decremented in the tick of the capture too ) and 30
\* otherwise; on a tick where the new height is below the peak, a peak above 1 pixel
\* whose hold is not over has its hold decremented and stays as it is
CaptureThenHold ==
    [][obs'.op = "draw" =>
         \A i \in 1..Len(am.bars), c \in Channels(am) :
            LET bar       == am.bars[i]
                after     == am'.bars[i]
                barHeight == BarHeight(am, bar, am'.fftData[c])
            IN  IF QLe(bar.peak[c], barHeight)
                THEN /\ after.peak[c] = barHeight
                     /\ after.accel[c] = 0
                     /\ after.hold[c] = IF QLt(I(1), barHeight) THEN HoldFrames - 1
                                        ELSE HoldFrames
                ELSE QLt(I(1), bar.peak[c]) /\ bar.hold[c] # 0
                     => /\ after.hold[c] = bar.hold[c] - 1
                        /\ after.peak[c] = bar.peak[c]
                        /\ after.accel[c] = bar.accel[c]]_vars

\* a tick has captured a peak above 1 pixel: its hold is 29
CapturedAboveOne ==
    /\ obs.op = "draw"
    /\ \E i \in 1..Len(am.bars), c \in Channels(am) :
          /\ QLt(I(1), am.bars[i].peak[c])
          /\ am.bars[i].peak[c] = BarHeight(am, am.bars[i], am.fftData[c])
          /\ am.bars[i].hold[c] = HoldFrames - 1
          /\ am.bars[i].accel[c] = 0

Silent(t, data) ==
    \A i \in 1..Len(t.bars), c \in Channels(t) : BarHeight(t, t.bars[i], data[c]) = I(0)

\* the last frame's data made every bar 0 pixels high
Quiet == Silent(am, am.fftData)

EnergyPeakZeroWithin30 ==
    am.energy.hold <= -HoldFrames => am.energy.peak.v = I(0)

---------------------------------------------------------------------------
(* The energy: an instance, mono or stereo, whose mode and frequency range *)
(* are changed through the setters while its frames run                   *)

\* the magnitudes of the spectra: full scale
EnergyLevels == {255}

\* both channels have the same level in every bin
EnergySpectra ==
    {<<Spectrum(BinCount(am), 0, v, v), Spectrum(BinCount(am), 0, v, v)>> :
        v \in EnergyLevels}

\* the modes set: discrete frequencies, half octave bands, and one the setter
\* refuses
Modes == {0, 5, 9}

\* the frequency ranges set ( min, max ): the default one, one below the frequency of
\* the first FFT bin, and one the method refuses
Ranges == {<<20, 22000>>, <<1, 2>>, <<0, 22000>>}

InitEnergy ==
    \E stereo \in BOOLEAN :
        Constructed(<< <<"fftSize", 32>>, <<"stereo", stereo>> >>)

TickEnergy == Tick(EnergySpectra)

SetMode == \E value \in Modes : Called(setMode(am, I(value)), "mode")

SetFreqRange == \E r \in Ranges : Called(setFreqRange(am, r[1], r[2]), "setFreqRange")

NextEnergy == TickEnergy \/ SetMode \/ SetFreqRange

SpecEnergy == InitEnergy /\ [][NextEnergy]_vars

\* C5: after every tick, whatever the mode, the frequency range and the channel
\* layout, energy.val is a number of [0, 1]: the sum of the bars' normalized heights
\* over the channels drawn, divided by ( the number of bars x the number of channels )
EnergyValInUnitRange ==
    obs.op = "draw" =>
        /\ IsFinite(am.energy.val)
        /\ QLe(I(0), am.energy.val)
        /\ QLe(am.energy.val, I(1))
        /\ am.energy.val = EnergyVal(am, am.fftData)

---------------------------------------------------------------------------
(* The configuration: an instance that is not started, on which the       *)
(* setters, registerGradient, setFreqRange and setOptions are called with *)
(* arguments they accept and arguments they refuse                        *)

\* the modes set: one the setter accepts, two it refuses
ConfigModes == {5, 9, 11}

\* the reflex ratios set: 2/5, and the refused 1 and -1
ReflexRatios == {[n |-> 2, d |-> 5], I(1), I(-1)}

\* the frequencies set by minFreq and maxFreq
MinFreqs == {20, 0}

MaxFreqs == {16000, 0}

\* the frequency ranges set ( min, max ): the default one, its bounds swapped, and
\* one the method refuses
ConfigRanges == {<<22000, 20>>, <<0, 22000>>}

\* the gradients selected: a built in one, one that is there once it is registered,
\* and one that is never there
GradientNames == {"rainbow", "mine", "none"}

\* the options registerGradient is given: not an object, no colorStops, one color
\* stop, and a gradient that is accepted
GradientOptions ==
    {[isObject |-> FALSE, hasStops |-> FALSE, colorStops |-> <<>>, bgColor |-> "",
      dir |-> ""],
     [isObject |-> TRUE, hasStops |-> FALSE, colorStops |-> <<>>, bgColor |-> "",
      dir |-> ""],
     [isObject |-> TRUE, hasStops |-> TRUE, colorStops |-> <<Stop("red")>>,
      bgColor |-> "", dir |-> ""],
     [isObject |-> TRUE, hasStops |-> TRUE,
      colorStops |-> <<Stop("red"), StopAt([n |-> 1, d |-> 2], "white"), Stop("blue")>>,
      bgColor |-> "#000", dir |-> "h"]}

\* the options setOptions is given, in the order of their keys
OptionLists ==
    << << <<"stereo", TRUE>>, <<"mode", I(9)>> >>,
       << <<"mode", I(5)>>, <<"reflexRatio", I(1)>> >>,
       << <<"mode", I(9)>>, <<"stereo", TRUE>> >>,
       << <<"stereo", FALSE>>, <<"mode", I(0)>> >>,
       << <<"reflexRatio", [n |-> 2, d |-> 5]>>, <<"gradient", "rainbow">> >>,
       << <<"gradient", "none">> >> >>

InitConfig == Constructed(<< <<"fftSize", 32>>, <<"start", "false">> >>)

SetConfigMode == \E value \in ConfigModes : Called(setMode(am, I(value)), "mode")

SetReflexRatio == \E value \in ReflexRatios : Called(setReflexRatio(am, value), "reflexRatio")

SetMinFreq == \E value \in MinFreqs : Called(setMinFreq(am, value), "minFreq")

SetMaxFreq == \E value \in MaxFreqs : Called(setMaxFreq(am, value), "maxFreq")

SetConfigFreqRange ==
    \E r \in ConfigRanges : Called(setFreqRange(am, r[1], r[2]), "setFreqRange")

SetGradient == \E value \in GradientNames : Called(setGradient(am, value), "gradient")

RegisterGradient ==
    \E name \in {"mine", ""}, options \in GradientOptions :
        Called(registerGradient(am, name, options), "registerGradient")

\* a call of a method that answers [w, err]
CalledOn(r, op) == Becomes(r.w, op, "", r.err)

SetOptions ==
    \E k \in 1..Len(OptionLists) : CalledOn(setOptions(World, OptionLists[k]), "setOptions")

NextConfig ==
    \/ SetConfigMode
    \/ SetReflexRatio
    \/ SetMinFreq
    \/ SetMaxFreq
    \/ SetConfigFreqRange
    \/ SetGradient
    \/ RegisterGradient
    \/ SetOptions

SpecConfig == InitConfig /\ [][NextConfig]_vars

\* the calls that change one setting
SingleSetters ==
    {"mode", "reflexRatio", "minFreq", "maxFreq", "setFreqRange", "gradient",
     "registerGradient"}

\* C9: when the mode, reflexRatio, minFreq or maxFreq setter, setFreqRange, the
\* gradient setter or registerGradient throws, the instance ( its configuration, its
\* gradients, its bars, its leds and its canvas gradient ) is as it was before the call
RejectedSetterIsAtomic ==
    [][obs'.op \in SingleSetters /\ obs'.err # "" => am' = am]_vars

\* a single setting has been refused after the configuration was changed
SetterRefused ==
    /\ obs.op \in SingleSetters
    /\ obs.err # ""
    /\ am.mode = 5
    /\ "mine" \in DOMAIN am.gradients

\* C10: when setOptions throws because one of the properties it is given is invalid,
\* none of the other properties has been applied: the instance is as it was before
\* the call
RejectedOptionsAreAtomic ==
    [][obs'.op = "setOptions" /\ obs'.err # "" => am' = am]_vars

---------------------------------------------------------------------------
(* The stored configuration, under the calls of SpecConfig                 *)

\* the modes the analyzer has
ValidModes == (0..8) \cup {10}

\* a property setOptions is given that its setter refuses
InvalidProp(p) ==
    CASE p[1] = "mode"        -> Trunc(p[2]) \notin ValidModes
      [] p[1] = "reflexRatio" -> QLt(p[2], I(0)) \/ QLe(I(1), p[2])
      [] p[1] = "minFreq"     -> p[2] < 1
      [] p[1] = "maxFreq"     -> p[2] < 1
      [] OTHER                -> FALSE

---------------------------------------------------------------------------
(* The gradients: an instance on which gradients are registered, under new *)
(* names and under names that are registered already, and selected         *)

\* the names registerGradient is given: a new one, two built in ones, and the
\* empty one
RegisteredNames == {"mine", "classic", "prism", ""}

\* the gradients selected
SelectedNames == {"mine", "classic", "prism", "none"}

\* a call of registerGradient that answers [t, err]; obs.arg is the name
Registered(r, name) == Becomes([World EXCEPT !.am = r.t], "registerGradient", name, r.err)

RegisterNamed ==
    \E name \in RegisteredNames, options \in GradientOptions :
        Registered(registerGradient(am, name, options), name)

SelectGradient == \E value \in SelectedNames : Called(setGradient(am, value), "gradient")

NextGradients == RegisterNamed \/ SelectGradient

SpecGradients == InitConfig /\ [][NextGradients]_vars

\* C12: registerGradient called with a name that is registered already, the built in
\* classic, prism and rainbow included, fails and leaves the gradients as they were;
\* called with fewer than 2 color stops it fails with the invalid gradient error
DuplicateGradientRefused ==
    [][obs'.op = "registerGradient"
           => /\ obs'.arg \in DOMAIN am.gradients
                  => obs'.err # "" /\ am'.gradients = am.gradients
              /\ obs'.arg # "" /\ obs'.err = ""
                  => Len(am'.gradients[obs'.arg].colorStops) >= 2]_vars

---------------------------------------------------------------------------
(* The layout of the discrete modes: an instance in mode 0 or 10 whose     *)
(* frequency range, FFT size and canvas width are changed                  *)

\* the frequencies set by minFreq and maxFreq, 0 being refused
LayoutFreqs == {0, 20, 5000, 16000, 22000}

\* the ranges set by setFreqRange ( min, max )
LayoutRanges == {<<20, 22000>>, <<5000, 5000>>, <<16000, 5000>>}

\* the FFT sizes set, 48 being refused
LayoutFftSizes == {32, 48, 64}

\* the canvas widths set, 0 for the width of the container
LayoutWidths == {0, 6000}

\* the discrete modes
DiscreteModes == {0, 10}

InitLayout == Constructed(<< <<"fftSize", 32>>, <<"start", "false">> >>)

SetLayoutMode == \E value \in DiscreteModes : Called(setMode(am, I(value)), "mode")

SetLayoutMinFreq == \E value \in LayoutFreqs : Called(setMinFreq(am, value), "minFreq")

SetLayoutMaxFreq == \E value \in LayoutFreqs : Called(setMaxFreq(am, value), "maxFreq")

SetLayoutFreqRange ==
    \E r \in LayoutRanges : Called(setFreqRange(am, r[1], r[2]), "setFreqRange")

SetFftSize == \E value \in LayoutFftSizes : Called(setFftSize(am, value), "fftSize")

SetWidth == \E value \in LayoutWidths : Called(setWidth(am, value), "width")

NextLayout ==
    \/ SetLayoutMode
    \/ SetLayoutMinFreq
    \/ SetLayoutMaxFreq
    \/ SetLayoutFreqRange
    \/ SetFftSize
    \/ SetWidth

SpecLayout == InitLayout /\ [][NextLayout]_vars

\* C13: a range with minFreq >= maxFreq is never accepted: the minFreq setter, the
\* maxFreq setter and setFreqRange refuse what would leave minFreq >= maxFreq, so
\* minFreq is below maxFreq in every state, whenever the bars are laid out
FreqRangeOrdered == am.minFreq < am.maxFreq

\* the pixel position of the bin i in the discrete modes
BinPos(t, i) ==
    Round(QMul(QDiv(I(t.canvas.width), QSub(Log10(t.maxFreq), Log10(t.minFreq))),
               QSub(Log10Bin(t, i), Log10(t.minFreq))))

\* the discrete layout of a valid range
DiscreteRange(t) == ~t.isOctaveBands /\ t.minFreq >= 1 /\ t.minFreq < t.maxFreq

\* C17: in the modes 0 and 10, for every range with minFreq < maxFreq, every FFT size
\* and every canvas width, the bars have strictly increasing positions ( one bar per
\* pixel column ) and non-decreasing first bins
DiscreteBarsOrdered ==
    DiscreteRange(am)
        => \A k \in 1..(Len(am.bars) - 1) :
               /\ QLt(am.bars[k].posX, am.bars[k + 1].posX)
               /\ am.bars[k].dataIdx <= am.bars[k + 1].dataIdx

\* a discrete layout from 5000 Hz on 64 samples, of several bars, one of them fed by
\* several bins
DiscreteBarsMerged ==
    /\ DiscreteRange(am)
    /\ am.minFreq = 5000 /\ am.fftSize = 64
    /\ Len(am.bars) >= 3
    /\ \E k \in 1..Len(am.bars) : am.bars[k].endIdx > am.bars[k].dataIdx
    /\ \E k \in 1..Len(am.bars) : am.bars[k].endIdx = 0

\* the bins that feed a bar: dataIdx alone when endIdx is 0, dataIdx .. endIdx otherwise
BarBins(bar) == bar.dataIdx..(IF bar.endIdx = 0 THEN bar.dataIdx ELSE bar.endIdx)

\* the bars a bin feeds
BarsOf(t, i) == {k \in 1..Len(t.bars) : i \in BarBins(t.bars[k])}

\* the first and the last bin of the loop of the discrete modes
MinIndex(t) == freqToBin(t, I(t.minFreq), "floor")

MaxIndex(t) == freqToBin(t, I(t.maxFreq), "round")

\* C18 as stated: in the modes 0 and 10, for frequencies of at least 1 with
\* minFreq < maxFreq, every bin from the floor-rounded bin of minFreq to the
\* nearest-rounded bin of maxFreq feeds exactly one bar, and the first bar starts at the
\* floor-rounded bin of minFreq
DiscreteBinsCovered ==
    DiscreteRange(am)
        => /\ \A i \in MinIndex(am)..MaxIndex(am) : Cardinality(BarsOf(am, i)) = 1
           /\ Len(am.bars) > 0 => am.bars[1].dataIdx = MinIndex(am)

\* the bins of the loop that start a bar when no bar is there yet: not the bin 0, whose
\* frequency is 0 Hz and whose position is -Infinity, and not a bin whose position is
\* -999 or less
Placed(t) ==
    {i \in MinIndex(t)..MaxIndex(t) : i >= 1 /\ QLt(I(-999), BinPos(t, i))}

\* C18: in the modes 0 and 10, for frequencies of at least 1 with minFreq < maxFreq,
\* the bins of the loop, from the first one that is not the bin 0 and lies above the
\* position -999 to the nearest-rounded bin of maxFreq, feed exactly one bar each; every
\* other bin feeds no bar; the first bar starts at the first of these bins
DiscreteBinsCoveredFromFirstPlaced ==
    DiscreteRange(am)
        => /\ \A i \in 0..(BinCount(am) - 1) :
                  Cardinality(BarsOf(am, i))
                      = IF i <= MaxIndex(am) /\ \E j \in Placed(am) : j <= i THEN 1 ELSE 0
           /\ Len(am.bars) > 0
                  => /\ am.bars[1].dataIdx \in Placed(am)
                     /\ \A j \in Placed(am) : am.bars[1].dataIdx <= j

\* the size of the FFT has been set to 64 on a range whose floor-rounded bin is 0: the
\* first bar starts at the bin 1
BinZeroLeftOut ==
    /\ obs.op = "fftSize"
    /\ am.fftSize = 64
    /\ DiscreteRange(am)
    /\ MinIndex(am) = 0
    /\ Len(am.bars) > 1
    /\ am.bars[1].dataIdx = 1

---------------------------------------------------------------------------
(* The layout of the octave bands: an instance in one of the modes 5 .. 8  *)
(* whose frequency range and FFT size are changed                          *)

\* the octave bands modes set: 1/4, 1/3, half and full octave bands
BandModes == {5, 6, 7, 8}

\* the frequencies set by minFreq and maxFreq; 27000 is above half the sample rate
BandMinFreqs == {20, 5000, 16000}

BandMaxFreqs == {64, 22000, 27000}

\* the ranges set by setFreqRange ( min, max )
BandRanges == {<<20, 22000>>, <<20, 5000>>}

\* the FFT sizes set
BandFftSizes == {32, 64}

InitBands == Constructed(<< <<"mode", I(5)>>, <<"fftSize", 32>>, <<"start", "false">> >>)

SetBandMode == \E value \in BandModes : Called(setMode(am, I(value)), "mode")

SetBandMinFreq == \E value \in BandMinFreqs : Called(setMinFreq(am, value), "minFreq")

SetBandMaxFreq == \E value \in BandMaxFreqs : Called(setMaxFreq(am, value), "maxFreq")

SetBandFreqRange ==
    \E r \in BandRanges : Called(setFreqRange(am, r[1], r[2]), "setFreqRange")

SetBandFftSize == \E value \in BandFftSizes : Called(setFftSize(am, value), "fftSize")

NextBands ==
    \/ SetBandMode
    \/ SetBandMinFreq
    \/ SetBandMaxFreq
    \/ SetBandFreqRange
    \/ SetBandFftSize

SpecBands == InitBands /\ [][NextBands]_vars

\* the maximal run of consecutive bars that read the bin of the k-th bar: its first
\* and its last bar
RunStart(bars, k) ==
    CHOOSE a \in 1..k :
        /\ \A j \in a..k : bars[j].dataIdx = bars[k].dataIdx
        /\ a > 1 => bars[a - 1].dataIdx # bars[k].dataIdx

RunEnd(bars, k) ==
    CHOOSE b \in k..Len(bars) :
        /\ \A j \in k..b : bars[j].dataIdx = bars[k].dataIdx
        /\ b < Len(bars) => bars[b + 1].dataIdx # bars[k].dataIdx

\* the factor of the k-th bar of a run of n bars from the a-th bar on
RunFactor(a, n, k) == IF n >= 2 THEN Q(k - a + 1, n) ELSE I(0)

\* C19: in the octave bands modes, every maximal run of n >= 2 consecutive bars that
\* read the same bin has the factor k / n on its k-th bar, wherever the run lies, a run
\* that ends at the last bar included; every other bar has the factor 0
OctaveFactors ==
    am.isOctaveBands
        => \A k \in 1..Len(am.bars) :
               am.bars[k].factor
                   = RunFactor(RunStart(am.bars, k),
                               RunEnd(am.bars, k) - RunStart(am.bars, k) + 1, k)

\* C20: in the octave bands modes there is one bar per note kept of the tempered
\* scale, the first bins of the bars do not decrease, and the bar after a bar that
\* covers a range of bins ( endIdx > dataIdx ) starts above that range
OctaveRangesDisjoint ==
    am.isOctaveBands
        => /\ Len(am.bars) = Len(temperedScale(am))
           /\ \A k \in 1..(Len(am.bars) - 1) :
                  /\ am.bars[k].dataIdx <= am.bars[k + 1].dataIdx
                  /\ am.bars[k].endIdx > am.bars[k].dataIdx
                         => am.bars[k + 1].dataIdx > am.bars[k].endIdx

---------------------------------------------------------------------------
(* The LEDs: an instance in one of the modes 5 .. 8 whose LED parameters,  *)
(* canvas height, reflex ratio, stereo and lumiBars settings are changed   *)

\* the modes set
LedModes == {5, 8}

\* the parameters setLedParams is given, <<maxLeds, spaceV, spaceH>>: none, valid
\* ones, and ones with an invalid maxLeds
LedParams == {<<>>, <<I(4), I(1), [n |-> 1, d |-> 2]>>, <<I(0), I(1), I(0)>>}

\* the canvas heights set, 0 for the height of the container
LedHeights == {0, 1, 40}

\* the reflex ratios set
LedReflexRatios == {I(0), [n |-> 2, d |-> 5], [n |-> 4, d |-> 5]}

InitLeds == Constructed(<< <<"mode", I(5)>>, <<"fftSize", 32>>, <<"start", "false">> >>)

SetLedParams == \E params \in LedParams : Called(setLedParams(am, params), "setLedParams")

SetLedMode == \E value \in LedModes : Called(setMode(am, I(value)), "mode")

SetHeight == \E value \in LedHeights : Called(setHeight(am, value), "height")

SetLedReflexRatio ==
    \E value \in LedReflexRatios : Called(setReflexRatio(am, value), "reflexRatio")

SetStereo == \E value \in BOOLEAN : Called(setStereo(am, value), "stereo")

SetLumiBars == \E value \in BOOLEAN : Called(setLumiBars(am, value), "lumiBars")

NextLeds ==
    \/ SetLedParams
    \/ SetLedMode
    \/ SetHeight
    \/ SetLedReflexRatio
    \/ SetStereo
    \/ SetLumiBars

SpecLeds == InitLeds /\ [][NextLeds]_vars

\* parameters that setLedParams is to accept: maxLeds > 0, spaceV > 0, spaceH >= 0
ValidLedParams(params) ==
    /\ params # <<>>
    /\ QLt(I(0), params[1])
    /\ QLt(I(0), params[2])
    /\ QLe(I(0), params[3])

\* C14: after setLedParams( { maxLeds, spaceV, spaceH } ) with maxLeds > 0, spaceV > 0
\* and spaceH >= 0 the custom LED parameters stored are these three values, and the
\* LEDs are computed from them; after a call with no argument or with an invalid
\* property the custom parameters are cleared and the LEDs are those of the table
LedParamsInstalled ==
    \A params \in LedParams :
        /\ setLedParams(am, params).t.ledParams
               = IF ValidLedParams(params) THEN params ELSE <<>>
        /\ setLedParams(am, params).t
               = calcLeds([am EXCEPT !.ledParams =
                               IF ValidLedParams(params) THEN params ELSE <<>>])

\* the number of LEDs computed from the table of the modes, for the analyzer height
\* with the extra spacing of maximizeLeds
TableLedCount(t) ==
    QMin(LedTable[t.mode][1],
         I(Floor(QDiv(IF t.maximizeLeds THEN QAdd(I(t.analyzerHeight), t.leds[3])
                      ELSE I(t.analyzerHeight),
                      QMul(I(2), t.leds[3])))))

\* C16: in the octave bands modes, for every canvas height, reflex ratio, stereo and
\* lumiBars setting, the number of LEDs is a whole number of at least 1, the one
\* computed from the table when no custom parameters are set, and the height of a LED
\* is finite
LedCountAtLeastOne ==
    am.isOctaveBands
        => /\ am.leds[1].d = 1
           /\ am.leds[1].n >= 1
           /\ IsFinite(am.leds[4])
           /\ am.ledParams = <<>> => am.leds[1] = TableLedCount(am)

---------------------------------------------------------------------------
(* _calcLeds with custom parameters, as a function of the parameters, the   *)
(* canvas height and the pixel ratio: an instance that holds custom LED    *)
(* parameters, on which the setters that call _calcLeds are called         *)

\* the custom parameters <<maxLeds, spaceV, spaceH>>
OverrideParams ==
    {<<I(8), I(1), [n |-> 1, d |-> 2]>>, <<I(4), [n |-> 1, d |-> 4], I(0)>>,
     <<I(5), I(3), I(2)>>}

\* the heights of the canvas
OverrideHeights == {1, 10, 40, 270}

\* the values of this._pixelRatio
OverridePixelRatios == {1, 2}

\* the instance t with the custom parameters params on a canvas of height h, for the
\* pixel ratio ratio
Overridden(t, params, h, ratio) ==
    calcLeds(calcAux([t EXCEPT !.ledParams = params, !.canvas.height = h,
                               !.pixelRatio = I(ratio)]))

InitOverride ==
    \E params \in OverrideParams, h \in OverrideHeights, ratio \in OverridePixelRatios :
        Starts([Construct(<< <<"mode", I(5)>>, <<"fftSize", 32>>, <<"start", "false">> >>)
                    EXCEPT !.am = Overridden(@, params, h, ratio)])

SetOverrideMode == \E value \in LedModes : Called(setMode(am, I(value)), "mode")

SetOverrideReflexRatio ==
    \E value \in LedReflexRatios : Called(setReflexRatio(am, value), "reflexRatio")

SetOverrideStereo == \E value \in BOOLEAN : Called(setStereo(am, value), "stereo")

SetOverrideLumiBars == \E value \in BOOLEAN : Called(setLumiBars(am, value), "lumiBars")

NextOverride ==
    \/ SetOverrideMode
    \/ SetOverrideReflexRatio
    \/ SetOverrideStereo
    \/ SetOverrideLumiBars

SpecLedOverride == InitOverride /\ [][NextOverride]_vars

---------------------------------------------------------------------------
(* The canvas gradient: an instance in mode 5 on which gradients of two    *)
(* colors are registered and selected, and whose stereo, splitGradient,    *)
(* radial, lumiBars and reflexRatio settings are changed                   *)

\* the gradients of two colors without positions: a vertical and a horizontal one
TwoStops(dir) ==
    [isObject |-> TRUE, hasStops |-> TRUE, colorStops |-> <<Stop("red"), Stop("blue")>>,
     bgColor |-> "", dir |-> dir]

\* the names they are registered under, by direction
TwoStopNames == [duo |-> "", wide |-> "h"]

RegisterTwoStops ==
    \E name \in DOMAIN TwoStopNames :
        Registered(registerGradient(am, name, TwoStops(TwoStopNames[name])), name)

SelectTwoStops ==
    \E value \in DOMAIN TwoStopNames \cup {"classic"} :
        Called(setGradient(am, value), "gradient")

\* the reflex ratios set
GradReflexRatios == {I(0), [n |-> 2, d |-> 5]}

SetGradReflexRatio ==
    \E value \in GradReflexRatios : Called(setReflexRatio(am, value), "reflexRatio")

SetSplitGradient ==
    \E value \in BOOLEAN : Called(setSplitGradient(am, value), "splitGradient")

SetRadial == \E value \in BOOLEAN : Called(setRadial(am, value), "radial")

NextGrad ==
    \/ RegisterTwoStops
    \/ SelectTwoStops
    \/ SetGradReflexRatio
    \/ SetSplitGradient
    \/ SetRadial
    \/ SetStereo
    \/ SetLumiBars

SpecGrad == InitLeds /\ [][NextGrad]_vars

\* the gradient selected has exactly two colors, neither with a position
TwoStopGradient(t) ==
    /\ Len(t.gradients[t.gradient].colorStops) = 2
    /\ \A k \in 1..2 : ~t.gradients[t.gradient].colorStops[k].hasPos

\* the offsets of the color stops of the canvas gradient
Offsets(t) ==
    {t.canvasGradient.stops[k].offset : k \in 1..Len(t.canvasGradient.stops)}

\* C21 as stated: for a gradient of exactly 2 colors without positions the color stops
\* of the canvas gradient have the offsets 0 and 1 exactly, in every combination of
\* mono or stereo, splitGradient, radial, lumiBars, reflex ratio and direction
TwoStopOffsets == TwoStopGradient(am) => Offsets(am) = {I(0), I(1)}

\* the settings under which the offsets are not changed: mono, or a horizontal gradient,
\* or stereo with splitGradient when the reflex areas are not skipped ( lumiBars,
\* radial, or a reflex ratio of 0 )
OffsetsKept(t) ==
    \/ ~t.stereo
    \/ t.gradients[t.gradient].dir = "h"
    \/ t.splitGradient /\ (t.isLumiBars \/ t.radial \/ t.reflexRatio = I(0))

\* C21: for a gradient of exactly 2 colors without positions the color stops of the
\* canvas gradient have the offsets 0 and 1 exactly in mono, for a horizontal gradient,
\* and in stereo with splitGradient when lumiBars or radial is on or the reflex ratio
\* is 0; in the other combinations they have not: a vertical gradient in stereo has
\* a stop at .5 for each channel without splitGradient, and the stops 0 and
\* 1 - reflexRatio / 2 with splitGradient
TwoStopOffsetsWhenKept ==
    TwoStopGradient(am)
        => /\ OffsetsKept(am) <=> Offsets(am) = {I(0), I(1)}
           /\ am.stereo /\ am.gradients[am.gradient].dir # "h" /\ ~am.splitGradient
                  => Half \in Offsets(am)
           /\ ~OffsetsKept(am) /\ am.splitGradient
                  => Offsets(am) = {I(0), QSub(I(1), QMul(Half, am.reflexRatio))}

\* a vertical gradient of two colors on an instance in stereo, without splitGradient
TwoStopsInStereo ==
    /\ TwoStopGradient(am)
    /\ am.gradient = "duo"
    /\ am.stereo /\ ~am.splitGradient
    /\ Offsets(am) = {I(0), Half, I(1)}

---------------------------------------------------------------------------
(* The rotation: a started instance with a spin speed, whose frames run on *)
(* silence and on sound                                                    *)

\* the frames stop once the angle has advanced by MaxSpin steps
MaxSpin == 3

\* silence, and the highest magnitude in every bin
SpinSpectra ==
    {<<Spectrum(BinCount(am), 0, v, v), Spectrum(BinCount(am), 0, v, v)>> : v \in {0, 255}}

\* the spin speeds set, in revolutions per minute
SpinSpeeds == {I(0), I(1), I(2)}

InitSpin == Constructed(<< <<"fftSize", 32>>, <<"spinSpeed", I(1)>> >>)

TickSpin == am.spinAngle.n < MaxSpin /\ Tick(SpinSpectra)

SetSpinSpeed == \E value \in SpinSpeeds : Called(setSpinSpeed(am, value), "spinSpeed")

NextSpin == TickSpin \/ SetSpinSpeed

SpecSpin == InitSpin /\ [][NextSpin]_vars

\* C22 as stated: a tick advances the rotation angle by the spin speed if and only if
\* the energy of that tick is above 0; a tick whose energy is 0 leaves it unchanged
SpinsWithSound ==
    [][obs'.op = "draw"
           => am'.spinAngle = IF QLt(I(0), am'.energy.val)
                              THEN QAdd(am.spinAngle, am.spinSpeed)
                              ELSE am.spinAngle]_vars

\* C22: a tick advances the rotation angle by the spin speed if and only if the energy
\* of the tick before it ( 0 before the first tick ) is above 0: the first tick with
\* sound after silence leaves the angle unchanged, and the first silent tick after
\* sound advances it
SpinsWithSoundBefore ==
    [][obs'.op = "draw"
           => am'.spinAngle = IF QLt(I(0), am.energy.val)
                              THEN QAdd(am.spinAngle, am.spinSpeed)
                              ELSE am.spinAngle]_vars

\* a tick with sound has left the angle where it was, the spin speed being 1
SoundWithoutSpin ==
    /\ obs.op = "draw"
    /\ QLt(I(0), am.energy.val)
    /\ am.spinSpeed = I(1)
    /\ am.spinAngle = I(0)

---------------------------------------------------------------------------
(* The bars across a new layout: a started instance whose frames run on    *)
(* silence and on sound, and whose canvas width, frequency range, FFT size *)
(* and mode are changed between the frames                                 *)

\* at most MaxQuiet silent frames run in a row
MaxQuiet == 3

\* the highest magnitude in every bin, and silence while silent frames are left
ResetSpectra ==
    {<<Spectrum(BinCount(am), 0, v, v), Spectrum(BinCount(am), 0, v, v)>> :
         v \in IF am.energy.hold > HoldFrames - MaxQuiet THEN {0, 255} ELSE {255}}

\* the canvas widths, the ranges, the FFT sizes and the modes set
ResetWidths == {0, 12}

ResetRanges == {<<20, 22000>>, <<5000, 22000>>}

ResetFftSizes == {32, 64}

ResetModes == {0, 5}

InitReset == Constructed(<< <<"fftSize", 32>> >>)

TickReset == Tick(ResetSpectra)

SetResetWidth == \E value \in ResetWidths : Called(setWidth(am, value), "width")

SetResetFreqRange ==
    \E r \in ResetRanges : Called(setFreqRange(am, r[1], r[2]), "setFreqRange")

SetResetFftSize == \E value \in ResetFftSizes : Called(setFftSize(am, value), "fftSize")

SetResetMode == \E value \in ResetModes : Called(setMode(am, I(value)), "mode")

NextReset ==
    \/ TickReset
    \/ SetResetWidth
    \/ SetResetFreqRange
    \/ SetResetFftSize
    \/ SetResetMode

SpecReset == InitReset /\ [][NextReset]_vars

\* the setters that lay the bars out again whenever they return
RebuildOps == {"setFreqRange", "fftSize", "mode"}

\* the instance with 0 in place of the hold and the acceleration that are not set
Zeroed(t) ==
    [t EXCEPT !.bars =
        [i \in 1..Len(t.bars) |->
            [t.bars[i] EXCEPT
                !.hold  = [c \in 1..2 |-> IF @[c] = Undefined THEN 0 ELSE @[c]],
                !.accel = [c \in 1..2 |-> IF @[c] = Undefined THEN 0 ELSE @[c]]]]]

\* a new bar: no peak, and neither a hold nor an acceleration, on both channels
IsNewBar(bar) ==
    \A c \in 1..2 :
        /\ bar.peak[c] = I(0)
        /\ bar.hold[c] = Undefined
        /\ bar.accel[c] = Undefined

\* a tick leaves the same bars whether the hold and the acceleration that are not set
\* are taken as they are or as 0 ( up to what stays unset on a channel not drawn )
UnsetIsZero ==
    \A data \in ResetSpectra :
        Zeroed(DrawFrame(am, FramePeriod, data)).bars
            = Zeroed(DrawFrame(Zeroed(am), FramePeriod, data)).bars

\* C23: after a change of the canvas width, of the frequency range, of the FFT size or
\* of the mode the bars are all new: on both channels the peak is 0 and the hold and
\* the acceleration are not set, which no tick can tell from 0; nothing a tick wrote in
\* the bars of the layout before is left
BarsResetOnRebuild ==
    /\ [][/\ obs'.err = ""
          /\ \/ obs'.op \in RebuildOps
             \/ obs'.op = "width" /\ am'.canvas.width # am.canvas.width
          => \A i \in 1..Len(am'.bars) : IsNewBar(am'.bars[i])]_vars
    /\ []UnsetIsZero

\* the FFT size has been set after frames with sound and silence: the bars are new,
\* while the bars before had peaks that were held
RebuiltAfterPeaks ==
    /\ obs.op = "fftSize"
    /\ obs.err = ""
    /\ am.energy.hold < HoldFrames
    /\ QLt(I(0), am.energy.peak.v)
    /\ Len(am.bars) > 0
    /\ \A i \in 1..Len(am.bars) : IsNewBar(am.bars[i])

---------------------------------------------------------------------------
(* getEnergy: an instance, mono or stereo, whose frames run on silence and *)
(* on sound, and whose energy is asked for                                 *)

\* the arguments of getEnergy: undefined, a number or a string
NoArg == [type |-> "undefined", num |-> I(0), str |-> ""]

Num(x) == [type |-> "number", num |-> x, str |-> ""]

Str(s) == [type |-> "string", num |-> I(0), str |-> s]

\* what getEnergy returns: null or a number
Null == [null |-> TRUE, val |-> I(0)]

Number(x) == [null |-> FALSE, val |-> x]

\* the presets of getEnergy
Presets ==
    [bass |-> <<20, 250>>, lowMid |-> <<250, 500>>, mid |-> <<500, 2000>>,
     highMid |-> <<2000, 4000>>, treble |-> <<4000, 16000>>]

\* startFreq !== ( startFreq | 0 ): a string, or a number that is not a whole number
\* ( the whole numbers of the model are all within 32 bits )
NotInt32(x) == x.type = "string" \/ (x.type = "number" /\ x.num.d # 1)

\* the sum of this._fftData[ channel ][ i ] over the channels and the bins
RECURSIVE SumBins(_, _, _, _)
SumBins(fftData, channel, i, endBin) ==
    IF i > endBin THEN 0
    ELSE fftData[channel][i] + SumBins(fftData, channel, i + 1, endBin)

\* getEnergy from the bins on
BinsEnergy(t, startBin, endBin) ==
    QDiv(QDiv(QDiv(I(SumBins(t.fftData, 1, startBin, endBin)
                     + (IF t.stereo THEN SumBins(t.fftData, 2, startBin, endBin) ELSE 0)),
                   I(endBin - startBin + 1)),
              I(IF t.stereo THEN 2 ELSE 1)),
         I(255))

\* getEnergy from the frequencies on; endFreq is falsy when undefined, 0 or NaN
RangeEnergy(t, startFreq, endFreq) ==
    Number(BinsEnergy(t, freqToBin(t, startFreq, "round"),
                      IF endFreq.type = "number" /\ ~IsNaN(endFreq.num)
                             /\ endFreq.num.n # 0
                      THEN freqToBin(t, endFreq.num, "round")
                      ELSE freqToBin(t, startFreq, "round")))

\* getEnergy( startFreq, endFreq )
getEnergy(t, startFreq, endFreq) ==
    IF startFreq.type = "undefined" THEN Number(t.energy.val)
    ELSE IF NotInt32(startFreq)
    THEN IF startFreq.type = "string" /\ startFreq.str = "peak" THEN Number(t.energy.peak)
         ELSE IF startFreq.type # "string" \/ startFreq.str \notin DOMAIN Presets THEN Null
         ELSE RangeEnergy(t, I(Presets[startFreq.str][1]), Num(I(Presets[startFreq.str][2])))
    ELSE RangeEnergy(t, startFreq.num, endFreq)

\* the calls made: no argument, the peak, a frequency, a frequency that is not a whole
\* number, a range, two presets and a name that is no preset
EnergyCalls ==
    {<<NoArg, NoArg>>, <<Str("peak"), NoArg>>, <<Num(I(1000)), NoArg>>,
     <<Num([n |-> 881, d |-> 2]), NoArg>>, <<Num(I(20)), Num(I(16000))>>,
     <<Str("bass"), NoArg>>, <<Str("treble"), NoArg>>, <<Str("sub"), NoArg>>}

InitGetEnergy ==
    \E stereo \in BOOLEAN :
        Constructed(<< <<"fftSize", 32>>, <<"stereo", stereo>> >>)

\* a call of getEnergy; obs.ret is what it returned
GetEnergy ==
    \E c \in EnergyCalls :
        Becomes([World EXCEPT !.ret = getEnergy(am, c[1], c[2])], "getEnergy", "", "")

NextGetEnergy == TickReset \/ GetEnergy

SpecGetEnergy == InitGetEnergy /\ [][NextGetEnergy]_vars

\* C24: getEnergy() returns the current energy and getEnergy( 'peak' ) the energy
\* peak; for every start frequency of at least 1, a whole number or not, with or
\* without an end frequency, and for every preset, it returns a number of [0, 1]; it
\* returns null only for a name that is no preset
EnergyResultInRange ==
    \A c \in EnergyCalls :
        LET r == getEnergy(am, c[1], c[2])
        IN  /\ c[1].type = "undefined" => r = Number(am.energy.val)
            /\ c[1] = Str("peak") => r = Number(am.energy.peak)
            /\ \/ c[1].type = "number" /\ QLe(I(1), c[1].num)
               \/ c[1].type = "string" /\ c[1].str \in DOMAIN Presets
               => ~r.null /\ QLe(I(0), r.val) /\ QLe(r.val, I(1))
            /\ r.null => c[1].type = "string" /\ c[1].str \notin DOMAIN Presets \cup {"peak"}

---------------------------------------------------------------------------
(* The cached LEDs: a started instance in an octave bands mode whose mode, *)
(* channel layout, effects, reflex ratio, bar spacing, canvas height and   *)
(* LED parameters are set in any order                                     *)

\* the bar spacings set
BarSpaces == {I(0), [n |-> 1, d |-> 4]}

InitLedCache == Constructed(<< <<"mode", I(5)>>, <<"fftSize", 32>> >>)

SetShowLeds == \E value \in BOOLEAN : Called(setShowLeds(am, value), "showLeds")

SetBarSpace == \E value \in BarSpaces : Called(setBarSpace(am, value), "barSpace")

NextLedCache ==
    \/ SetLedMode
    \/ SetStereo
    \/ SetRadial
    \/ SetLumiBars
    \/ SetShowLeds
    \/ SetLedReflexRatio
    \/ SetBarSpace
    \/ SetHeight
    \/ SetLedParams

SpecLedCache == InitLedCache /\ [][NextLedCache]_vars

\* C25: whenever a frame can start in an octave bands mode, after any setter calls
\* ( mode, stereo, radial, lumiBars, showLeds, reflexRatio, barSpace, canvas height,
\* setLedParams ), the cached LEDs are the ones computed afresh from the configuration
\* and the canvas height
LedCacheCoherent ==
    win.pending # {} /\ am.isOctaveBands => am.leds = calcLeds(calcAux(am)).leds

---------------------------------------------------------------------------
(* The audio routing: an instance built in mono or stereo, with or without *)
(* the speakers, whose output is connected to and disconnected from nodes  *)
(* and whose stereo property is set, in any order                          *)

\* the nodes connected ( "destination" stands for a call with no argument ) and
\* disconnected ( "" stands for a call with no argument: all nodes )
OutputNodes == {"destination", "delay", "recorder"}

DisconnectedNodes == OutputNodes \cup {""}

InitRouting ==
    \E stereo \in BOOLEAN, speakers \in BOOLEAN :
        Constructed(<< <<"fftSize", 32>>, <<"stereo", stereo>>,
                       <<"connectSpeakers", speakers>>, <<"start", "false">> >>)

\* r is what a method answered to the call op( node )
Routed(r, op, node) == Becomes([World EXCEPT !.am = r.t], op, node, r.err)

ConnectOutput == \E node \in OutputNodes : Routed(connectOutput(am, node), "connectOutput", node)

DisconnectOutput ==
    \E node \in DisconnectedNodes :
        Routed(disconnectOutput(am, node), "disconnectOutput", node)

SetRoutingStereo == \E value \in BOOLEAN : Called(setStereo(am, value), "stereo")

NextRouting == ConnectOutput \/ DisconnectOutput \/ SetRoutingStereo

SpecRouting == InitRouting /\ [][NextRouting]_vars

\* the routing of the instance t is the one of its stereo property and its list of
\* connected nodes
RoutingCoherent(t) ==
    /\ \A j, k \in 1..Len(t.outNodes) : t.outNodes[j] = t.outNodes[k] => j = k
    /\ \A i \in 1..2 : t.analyzerTo[i] # {} <=> t.outNodes # <<>>
    /\ t.outNodes # <<>> => t.analyzerTo[1] = {IF t.stereo THEN "merger" ELSE "output"}
    /\ t.inputTo = {IF t.stereo THEN "splitter" ELSE "analyzer0"}

\* the call made connects a connected node or disconnects one that is not connected
NothingToRoute(op, node, outNodes) ==
    \/ op = "connectOutput" /\ node \in Range(outNodes)
    \/ op = "disconnectOutput" /\ node # "" /\ node \notin Range(outNodes)

\* C26: after the construction and after any calls of connectOutput, disconnectOutput
\* and the stereo setter, the list of connected nodes has no duplicates, the analyzers
\* feed a node if and only if the list is not empty, the first analyzer then feeds the
\* output in mono and the merger in stereo, and the input feeds the first analyzer in
\* mono and the splitter in stereo; connectOutput of a connected node and
\* disconnectOutput of a node that is not connected change nothing
AudioRouting ==
    /\ [](RoutingCoherent(am))
    /\ [][NothingToRoute(obs'.op, obs'.arg, am.outNodes) => am' = am]_vars

\* the stereo setter has rerouted an instance connected to two nodes
StereoSetWhileConnected ==
    /\ obs.op = "stereo"
    /\ am.stereo
    /\ Len(am.outNodes) = 2
    /\ am.analyzerTo = << {"merger"}, {"merger"} >>

---------------------------------------------------------------------------
(* The bins read by a frame: an instance whose FFT size, mode, frequency   *)
(* range and canvas size are set in any order                              *)

\* the FFT sizes ( 48 is refused ), the modes, the frequencies ( 0 is refused; the bin
\* of 27000 Hz is beyond the last one ) and the canvas sizes set, << width, height >>
BoundsFftSizes == {32, 48, 64}

BoundsModes == {0, 5, 8}

BoundsFreqs == {0, 20, 5000, 27000}

BoundsSizes == {<<0, 0>>, <<12, 40>>}

InitBounds == Constructed(<< <<"fftSize", 32>>, <<"start", "false">> >>)

SetBoundsFftSize == \E value \in BoundsFftSizes : Called(setFftSize(am, value), "fftSize")

SetBoundsMode == \E value \in BoundsModes : Called(setMode(am, I(value)), "mode")

SetBoundsFreqRange ==
    \E min \in BoundsFreqs, max \in BoundsFreqs :
        Called(setFreqRange(am, min, max), "setFreqRange")

SetCanvasSize ==
    \E size \in BoundsSizes : Called(setCanvasSize(am, size[1], size[2]), "setCanvasSize")

NextBounds ==
    \/ SetBoundsFftSize
    \/ SetBoundsMode
    \/ SetBoundsFreqRange
    \/ SetCanvasSize

SpecBounds == InitBounds /\ [][NextBounds]_vars

\* the indices of the magnitude array that a frame reads for a bar: its bin, and the
\* bin before for an interpolated bar that is not at bin 0, or its range of bins
BinsRead(bar) ==
    IF bar.endIdx = 0
    THEN {bar.dataIdx} \cup (IF bar.factor.n # 0 /\ bar.dataIdx # 0 THEN {bar.dataIdx - 1}
                             ELSE {})
    ELSE bar.dataIdx..bar.endIdx

\* C27: after any accepted changes of the FFT size, the mode, the frequency range and
\* the canvas size, both magnitude arrays have fftSize / 2 elements and the first and
\* last bin of every bar are in 0 .. fftSize / 2 - 1, so that every index a frame
\* reads, the bin before an interpolated bar included, is inside the array
BinsInsideBuffers ==
    /\ \A c \in 1..2 : DOMAIN am.fftData[c] = 0..(am.fftSize \div 2 - 1)
    /\ \A i \in 1..Len(am.bars) :
           /\ am.bars[i].dataIdx \in 0..(BinCount(am) - 1)
           /\ am.bars[i].endIdx \in 0..(BinCount(am) - 1)
           /\ \A c \in 1..2 : BinsRead(am.bars[i]) \subseteq DOMAIN am.fftData[c]

\* after a change of the FFT size, a bar ends at the last bin, where the frequency
\* asked for is beyond it, and another is interpolated with the bin before
LastBinAndInterpolated ==
    /\ obs.op = "fftSize"
    /\ obs.err = ""
    /\ am.fftSize = 64
    /\ \E i \in 1..Len(am.bars) :
           BinCount(am) - 1 \in {am.bars[i].dataIdx, am.bars[i].endIdx}
    /\ \E i \in 1..Len(am.bars) :
           am.bars[i].factor.n # 0 /\ am.bars[i].dataIdx # 0 /\ am.bars[i].endIdx = 0

---------------------------------------------------------------------------
(* The energy peak against the energy, over the frames of SpecPeaks *)

\* x <= the product of the factors decay[ k ] / 30 from the k-th on
RECURSIVE LeProduct(_, _, _)
LeProduct(x, decay, k) ==
    IF QLt(I(1), x) THEN FALSE
    ELSE IF k > Len(decay) THEN TRUE
    ELSE LeProduct(QMul(x, [n |-> HoldFrames, d |-> decay[k]]), decay, k + 1)

\* energy.val <= energy.peak
LePeak(val, peak) ==
    IF peak.v.n = 0 \/ IsNaN(val) THEN QLe(val, peak.v)
    ELSE LeProduct(QDiv(val, peak.v), peak.decay, 1)

\* the peak after a frame is the frame's energy, or the peak before the frame, or the
\* peak before the frame times a factor of 0/30 .. 30/30
NotRaised(before, after, val) ==
    \/ GePeak(val, after)
    \/ after = before
    \/ after = [v |-> I(0), decay |-> <<>>]
    \/ /\ after.v = before.v
       /\ Len(after.decay) = Len(before.decay) + 1
       /\ SubSeq(after.decay, 1, Len(before.decay)) = before.decay
       /\ after.decay[Len(after.decay)] \in 1..HoldFrames

\* C28: at the end of every tick, whatever the energies of the frames, the energy
\* peak is at least the energy, and the peak is never above the highest energy so far:
\* a tick leaves it at the tick's energy or at or below the peak before the tick
EnergyPeakDominates ==
    /\ [](obs.op = "draw" => LePeak(am.energy.val, am.energy.peak))
    /\ [][obs'.op = "draw"
             => NotRaised(am.energy.peak, am'.energy.peak, am'.energy.val)]_vars

=============================================================================
